---- MODULE Spec2Model ----
(***************************************************************************)
(* Earthquake monitor (M5Stack Core2): the feed connection manager         *)
(* (websocket.cpp), the duplicate window, the notification scheduler       *)
(* (notification.cpp) and the list store (display.cpp), driven by the      *)
(* cooperative loop() of main.cpp.                                         *)
(*                                                                         *)
(* One pass of loop() is a chain of steps, pc naming the next one:         *)
(*   "update"  M5.update(): the clock and the touch panel are sampled      *)
(*   "display" updateDisplay()                                             *)
(*   "ws"      webSocketLoop() up to its poll() / reconnect                *)
(*   "poll"    callbacks delivered by webSocketClient.poll()               *)
(*   "mem"     monitorMemory(), the tail of webSocketLoop()                *)
(*   "notif"   updateNotification()                                        *)
(* Handlers that call each other (handleWebSocketMessage ->                *)
(* notifyEarthquake -> processNotificationQueue -> addEarthquakeToDisplay) *)
(* are operators on a record of the program's variables, composed inside   *)
(* the action of the outermost handler.                                    *)
(***************************************************************************)
EXTENDS Integers, Sequences, FiniteSets, TLC

(***************************************************************************)
(* Program constants                                                       *)
(***************************************************************************)
RECONNECT_INTERVAL == 5000
BACKOFF_INTERVAL == 60000
MAX_CONSECUTIVE_FAILURES == 5
TX_HASH_BUFFER_SIZE == 10
MEMORY_CHECK_INTERVAL == 10000
LOW_MEMORY_THRESHOLD == 20000
CRITICAL_MEMORY_THRESHOLD == 15000
PING_INTERVAL == 60000
PONG_TIMEOUT == 30000
NOTIFICATION_QUEUE_SIZE == 3
NOTIFY_MIN_FREE_HEAP == 15000
BEEP_DURATION_MS == 150
BEEP_INTERVAL_MS == 100
FLASH_DURATION_MS == 1500
FLASH_INTERVAL_MS == 300
MAX_EARTHQUAKE_LIST == 50
HEADER_HEIGHT == 30
CARD_HEIGHT == 75
CARD_MARGIN == 8
VISIBLE_AREA_HEIGHT == 210
EARTHQUAKE_DATA_BUFFER == 10
PAGE_SIZE == 30
COLOR_INTENSITY_1_2 == 800
COLOR_INTENSITY_3_4 == 33824
COLOR_INTENSITY_5L_6L == 49952
COLOR_INTENSITY_6H_7 == 45056
COLOR_INTENSITY_UNKNOWN == 16904

(***************************************************************************)
(* Bounds of the model                                                     *)
(***************************************************************************)
\* event frames delivered over one run of SpecNotify
MaxEvents == 5
\* event frames delivered over one run of SpecDedup
MaxDedupEvents == 13
\* callbacks delivered by one poll()
MaxPollEvents == 2
\* SpecDedup: identifiers admitted with a payload that does not decode
MaxUndecoded == 2
\* distinct non-empty transaction hashes the feed uses
MaxHashes == 12

\* millis() is an unsigned counter that wraps around; differences of two
\* readings are taken modulo its range. The range is narrowed to 30 bits,
\* the widest power of two whose differences TLC's integers hold.
ClockMod == 1024 * 1024 * 1024

Elapsed(current, since) == (current - since) % ClockMod

Min(a, b) == IF a < b THEN a ELSE b

(***************************************************************************)
(* EarthquakeData (earthquake.h). latitude, longitude, depth, datetime and *)
(* tsunami are copied with the record and read by no modelled decision;    *)
(* seq is a history tag naming the decode that produced the record.        *)
(***************************************************************************)
EarthquakeData(name, mag, intensity, tag) ==
    [hypocenterName |-> name, magnitude |-> mag, maxIntensity |-> intensity, seq |-> tag]

\* a default-constructed EarthquakeData: empty strings, zero numbers
NoData == EarthquakeData("", 0, "", 0)

Intensities == {"1", "2", "3", "4", "5weak", "5strong", "6weak", "6strong", "7"}

(***************************************************************************)
(* decode: parseWebSocketMessage = decodeHexMessage + parseEarthquakeJson  *)
(* A payload is the hex message of a transaction, described by what the    *)
(* decoder finds in it.                                                    *)
(*   hex        "ok" | "odd" (odd length) | "bad" (a non-hex digit)        *)
(*              | "blank" (nothing after the skipped first byte)           *)
(*   json       the decoded text parses as JSON                            *)
(*   earthquake, time, hypocenter   the required members are present       *)
(*   maxScaleNull   earthquake.maxScale is missing or null                 *)
(*   maxScale   its integer value (0 when it is not an integer)            *)
(*   name       hypocenter.name ("" when missing)                          *)
(*   magnitude  hypocenter.magnitude in tenths (0 when missing)            *)
(***************************************************************************)
Payload(len, hex, json, eq, time, hypo, scaleNull, scale, name, mag) ==
    [length |-> len, hex |-> hex, json |-> json, earthquake |-> eq, time |-> time,
     hypocenter |-> hypo, maxScaleNull |-> scaleNull, maxScale |-> scale,
     name |-> name, magnitude |-> mag]

GoodPayload(scale) == Payload(2, "ok", TRUE, TRUE, TRUE, TRUE, FALSE, scale, "loc", 58)
EmptyMessage == Payload(0, "blank", FALSE, FALSE, FALSE, FALSE, TRUE, 0, "", 0)
BadHexPayload == Payload(2, "bad", FALSE, FALSE, FALSE, FALSE, TRUE, 0, "", 0)
NoNamePayload == Payload(2, "ok", TRUE, TRUE, TRUE, TRUE, FALSE, 30, "", 58)
NegativeMagnitudePayload == Payload(2, "ok", TRUE, TRUE, TRUE, TRUE, FALSE, 30, "loc", -10)

\* decodeHexMessage: "" on an odd length or a non-hex digit, else the text
DecodeHexMessageOk(p) == p.hex = "ok"

\* the maxScale -> maxIntensity conversion of parseEarthquakeJson; "" = reject
MaxScaleToIntensity(maxScale) ==
    IF maxScale >= 10 /\ maxScale <= 40 THEN ToString(maxScale \div 10)
    ELSE IF maxScale = 45 THEN "5weak"
    ELSE IF maxScale = 50 THEN "5strong"
    ELSE IF maxScale = 55 THEN "6weak"
    ELSE IF maxScale = 60 THEN "6strong"
    ELSE IF maxScale = 70 THEN "7"
    ELSE ""

\* variant: the magnitude is not looked at
ParseEarthquakeJsonAnyMagnitude(p, tag) ==
    IF ~p.json THEN [ok |-> FALSE, data |-> NoData]
    ELSE IF ~p.earthquake THEN [ok |-> FALSE, data |-> NoData]
    ELSE IF ~p.time \/ ~p.hypocenter \/ p.maxScaleNull THEN [ok |-> FALSE, data |-> NoData]
    ELSE IF MaxScaleToIntensity(p.maxScale) = "" THEN [ok |-> FALSE, data |-> NoData]
    ELSE IF p.name = "" THEN [ok |-> FALSE, data |-> NoData]
    ELSE [ok |-> TRUE,
          data |-> EarthquakeData(p.name, p.magnitude, MaxScaleToIntensity(p.maxScale), tag)]

ParseEarthquakeJson(p, tag) ==
    IF ~p.json THEN [ok |-> FALSE, data |-> NoData]
    ELSE IF ~p.earthquake THEN [ok |-> FALSE, data |-> NoData]
    ELSE IF ~p.time \/ ~p.hypocenter \/ p.maxScaleNull THEN [ok |-> FALSE, data |-> NoData]
    ELSE IF MaxScaleToIntensity(p.maxScale) = "" THEN [ok |-> FALSE, data |-> NoData]
    ELSE IF p.name = "" THEN [ok |-> FALSE, data |-> NoData]
    ELSE IF p.magnitude < 0 THEN [ok |-> FALSE, data |-> NoData]
    ELSE [ok |-> TRUE,
          data |-> EarthquakeData(p.name, p.magnitude, MaxScaleToIntensity(p.maxScale), tag)]

ParseWebSocketMessage(p, tag) ==
    IF ~DecodeHexMessageOk(p) THEN [ok |-> FALSE, data |-> NoData]
    ELSE ParseEarthquakeJson(p, tag)

\* parseTransactions: the transactions of the history response, taken in order
\* until count of them decoded; the first EARTHQUAKE_DATA_BUFFER decoded
\* records are kept in earthquakeDataBuffer. The i-th transaction is tagged -i.
RECURSIVE ParseTransactionsFrom(_, _, _, _, _)
ParseTransactionsFrom(payloads, index, count, successCount, buffer) ==
    IF index > Len(payloads) \/ successCount >= count THEN buffer
    ELSE IF payloads[index].length = 0
         THEN ParseTransactionsFrom(payloads, index + 1, count, successCount, buffer)
    ELSE IF ~DecodeHexMessageOk(payloads[index])
         THEN ParseTransactionsFrom(payloads, index + 1, count, successCount, buffer)
    ELSE LET parsed == ParseEarthquakeJson(payloads[index], -index)
         IN IF parsed.ok
            THEN ParseTransactionsFrom(payloads, index + 1, count, successCount + 1,
                     IF successCount < EARTHQUAKE_DATA_BUFFER
                     THEN Append(buffer, parsed.data) ELSE buffer)
            ELSE ParseTransactionsFrom(payloads, index + 1, count, successCount, buffer)

ParseTransactions(payloads, count) == ParseTransactionsFrom(payloads, 1, count, 0, <<>>)

(***************************************************************************)
(* Severity tables                                                         *)
(***************************************************************************)
\* variant: 6-weak counts as a middle severity
GetBeepCountForIntensityLow6Weak(intensity) ==
    IF intensity \in {"5weak", "5strong", "6strong", "7"} THEN 3
    ELSE IF intensity \in {"3", "4", "6weak"} THEN 2
    ELSE 1

GetBeepCountForIntensity(intensity) ==
    IF intensity \in {"5weak", "5strong", "6weak", "6strong", "7"} THEN 3
    ELSE IF intensity \in {"3", "4"} THEN 2
    ELSE 1

\* String::startsWith("5") on the strings the model uses
StartsWith5(intensity) == intensity \in {"5weak", "5strong", "5"}

GetIntensityColor(intensity) ==
    IF intensity \in {"1", "2"} THEN COLOR_INTENSITY_1_2
    ELSE IF intensity \in {"3", "4"} THEN COLOR_INTENSITY_3_4
    ELSE IF StartsWith5(intensity) \/ intensity = "6weak" THEN COLOR_INTENSITY_5L_6L
    ELSE IF intensity \in {"6strong", "7"} THEN COLOR_INTENSITY_6H_7
    ELSE COLOR_INTENSITY_UNKNOWN

(***************************************************************************)
(* State                                                                   *)
(***************************************************************************)
VARIABLES
    \* websocket.cpp
    wsConnected, uidReceived, serverUid, reconnectTimer, consecutiveFailures,
    txHashBuffer, txHashIndex, memoryCheckTimer, lastPingSentTime,
    lastPongReceivedTime, signerPubKey,
    \* main.cpp
    isWiFiConnected,
    \* notification.cpp
    isSpeakerEnabled, notificationQueue, queueHead, queueTail, queueCount,
    beepCount, beepPlayed, lastBeepTime, isFlashing, flashStartTime, flashColor,
    \* display.cpp (earthquakeList holds the first earthquakeCount array slots)
    earthquakeList, scrollOffset, scrollVelocity, maxScrollOffset, lastTouchY,
    isDragging,
    \* platform: millis(), the touch panel, the transport client, the loop position
    now, touch, clientOpen, pc, polled,
    \* the feed's side of the connection: the uid of the subscribe request it
    \* has received on the open connection ("" = none)
    serverSubscription,
    \* history: tags handed out, identifiers admitted to the window (with the
    \* outcome of their decode), playback starts in order, the record last
    \* started, the records a touch cancelled, the last failed connect and the
    \* failed connects in a row, what the last step did
    nextSeq, admitLog, playLog, activeSeq, cancelledSeqs, lastFailTime, failRun, obs,
    \* the connection states the current call of webSocketLoop has been through
    loopPath, pongTimeoutTime,
    \* a ping has been sent on the connection last opened
    pingSent,
    \* the start times of the tones of the beep sequence that is running
    tones,
    \* when the memory watchdog last closed an open connection, if no connect
    \* was attempted since (-1 otherwise)
    watchdogTime,
    \* when the peer last closed the connection and when the last connect
    \* succeeded, if that was less than the reconnect interval ago and no
    \* connect was attempted since (-1 otherwise)
    closeTime, connectTime,
    \* when the current run of memory samples below the hard threshold began
    \* (-1 = the last sample was not below it, or none was taken yet)
    pressureSince,
    \* input budgets used so far
    hashesUsed, eventsUsed

vars == <<wsConnected, uidReceived, serverUid, reconnectTimer, consecutiveFailures,
          txHashBuffer, txHashIndex, memoryCheckTimer, lastPingSentTime,
          lastPongReceivedTime, signerPubKey, isWiFiConnected, isSpeakerEnabled,
          notificationQueue, queueHead, queueTail, queueCount, beepCount, beepPlayed,
          lastBeepTime, isFlashing, flashStartTime, flashColor, earthquakeList,
          scrollOffset, scrollVelocity, maxScrollOffset, lastTouchY, isDragging,
          now, touch, clientOpen, pc, polled, serverSubscription,
          nextSeq, admitLog, playLog, activeSeq, cancelledSeqs, lastFailTime, failRun,
          obs, loopPath, pongTimeoutTime, pingSent, watchdogTime, tones,
          closeTime, connectTime, pressureSince,
          hashesUsed, eventsUsed>>

\* the variables the handlers read and write, as one record
State ==
    [wsConnected |-> wsConnected, uidReceived |-> uidReceived, serverUid |-> serverUid,
     reconnectTimer |-> reconnectTimer, consecutiveFailures |-> consecutiveFailures,
     txHashBuffer |-> txHashBuffer, txHashIndex |-> txHashIndex,
     memoryCheckTimer |-> memoryCheckTimer, lastPingSentTime |-> lastPingSentTime,
     lastPongReceivedTime |-> lastPongReceivedTime, signerPubKey |-> signerPubKey,
     isWiFiConnected |-> isWiFiConnected, isSpeakerEnabled |-> isSpeakerEnabled,
     notificationQueue |-> notificationQueue, queueHead |-> queueHead,
     queueTail |-> queueTail, queueCount |-> queueCount, beepCount |-> beepCount,
     beepPlayed |-> beepPlayed, lastBeepTime |-> lastBeepTime, isFlashing |-> isFlashing,
     flashStartTime |-> flashStartTime, flashColor |-> flashColor,
     earthquakeList |-> earthquakeList, scrollOffset |-> scrollOffset,
     scrollVelocity |-> scrollVelocity, maxScrollOffset |-> maxScrollOffset,
     lastTouchY |-> lastTouchY, isDragging |-> isDragging,
     now |-> now, touch |-> touch, clientOpen |-> clientOpen,
     serverSubscription |-> serverSubscription,
     nextSeq |-> nextSeq, admitLog |-> admitLog, playLog |-> playLog,
     loopPath |-> loopPath, pongTimeoutTime |-> pongTimeoutTime, pingSent |-> pingSent, watchdogTime |-> watchdogTime, tones |-> tones,
     closeTime |-> closeTime, connectTime |-> connectTime,
     pressureSince |-> pressureSince,
     activeSeq |-> activeSeq,
     cancelledSeqs |-> cancelledSeqs, lastFailTime |-> lastFailTime,
     failRun |-> failRun, obs |-> obs]

\* the next state is the record s (pc, polled and the budgets are set by the action)
Commit(s) ==
    /\ wsConnected' = s.wsConnected
    /\ uidReceived' = s.uidReceived
    /\ serverUid' = s.serverUid
    /\ reconnectTimer' = s.reconnectTimer
    /\ consecutiveFailures' = s.consecutiveFailures
    /\ txHashBuffer' = s.txHashBuffer
    /\ txHashIndex' = s.txHashIndex
    /\ memoryCheckTimer' = s.memoryCheckTimer
    /\ lastPingSentTime' = s.lastPingSentTime
    /\ lastPongReceivedTime' = s.lastPongReceivedTime
    /\ signerPubKey' = s.signerPubKey
    /\ isWiFiConnected' = s.isWiFiConnected
    /\ isSpeakerEnabled' = s.isSpeakerEnabled
    /\ notificationQueue' = s.notificationQueue
    /\ queueHead' = s.queueHead
    /\ queueTail' = s.queueTail
    /\ queueCount' = s.queueCount
    /\ beepCount' = s.beepCount
    /\ beepPlayed' = s.beepPlayed
    /\ lastBeepTime' = s.lastBeepTime
    /\ isFlashing' = s.isFlashing
    /\ flashStartTime' = s.flashStartTime
    /\ flashColor' = s.flashColor
    /\ earthquakeList' = s.earthquakeList
    /\ scrollOffset' = s.scrollOffset
    /\ scrollVelocity' = s.scrollVelocity
    /\ maxScrollOffset' = s.maxScrollOffset
    /\ lastTouchY' = s.lastTouchY
    /\ isDragging' = s.isDragging
    /\ now' = s.now
    /\ touch' = s.touch
    /\ clientOpen' = s.clientOpen
    /\ serverSubscription' = s.serverSubscription
    /\ nextSeq' = s.nextSeq
    /\ loopPath' = s.loopPath
    /\ pongTimeoutTime' = s.pongTimeoutTime
    /\ pingSent' = s.pingSent
    /\ watchdogTime' = s.watchdogTime
    /\ closeTime' = s.closeTime
    /\ connectTime' = s.connectTime
    /\ pressureSince' = s.pressureSince
    /\ tones' = s.tones
    /\ admitLog' = s.admitLog
    /\ playLog' = s.playLog
    /\ activeSeq' = s.activeSeq
    /\ cancelledSeqs' = s.cancelledSeqs
    /\ lastFailTime' = s.lastFailTime
    /\ failRun' = s.failRun
    /\ obs' = s.obs

budgets == <<hashesUsed, eventsUsed>>

(***************************************************************************)
(* What a step did (history, read by the properties only)                  *)
(*   op           the handler that ran                                     *)
(*   notify       notifyEarthquake: "none" | "skipped" | "accepted"        *)
(*   arg          tag of the record handed to notifyEarthquake             *)
(*   pending      tags pending (head first) when notifyEarthquake began    *)
(*   started      tag of the record whose playback began (0 = none)        *)
(*   severity     the maxIntensity of the record started                   *)
(*   idleTouch    updateNotification ran with the panel pressed while no   *)
(*                flash and no beep sequence was running                    *)
(*   scheduler    the scheduler's variables when that call began           *)
(*   audioBusy, visualBusy   the channels just before that dequeue         *)
(*   cancel       a touch cancelled the flash                              *)
(*   pendingAtCancel   queueCount when it did                              *)
(*   pongTimeout  checkPongTimeout found the pong overdue                  *)
(*   ping         sendPing sent a ping                                     *)
(*   wasConnected, pingDue, pingAccepted, pingBefore   when the ping timer *)
(*                was looked at: wsConnected, PING_INTERVAL had elapsed,    *)
(*                the transport takes a ping, lastPingSentTime              *)
(*   uidFrame, uid   the frame was a handshake frame, and its identifier   *)
(*   signed, signer  the frame was an event frame with a message, and the  *)
(*                signer public key it carried                              *)
(*   stores       the duplicate window, the scheduler and the list when    *)
(*                the handler began (handshake and event frames)            *)
(*   due          webSocketLoop began with the link up, the feed           *)
(*                disconnected and the reconnect interval elapsed           *)
(*   watchdog     monitorMemory closed an open connection                  *)
(*   sinceWatchdog   ms between the last such close and this call, when no *)
(*                connect attempt was made in between (-1 = none pending)   *)
(*   sinceClose, sinceConnect   ms between the last close by the peer, or   *)
(*                the last successful connect, and this call, when no       *)
(*                connect attempt was made in between (-1 = none in the     *)
(*                last 5 s)                                                 *)
(*   sampled, critical   monitorMemory read the free heap / found it below  *)
(*                the hard threshold                                        *)
(*   pressure     pressureSince when webSocketLoop was called               *)
(*   sinceTimeout ms between the last such timeout and this call, when no  *)
(*                connect attempt was made in between (-1 = none pending)   *)
(*   tone         tag of the record a tone was started for (0 = none)      *)
(*   toneAfterCancel   that record had been cancelled by a touch           *)
(*   beepsDone, doneCount, doneTones   a beep sequence ended: its beep     *)
(*                count and the start times of its tones                    *)
(*   coast        the velocity applyInertiaScroll moved the list by (0 =   *)
(*                it did not move it)                                       *)
(*   inserted     addEarthquakeToDisplay put a record into the list        *)
(*   engaged      the user was scrolling when it was called                *)
(*   offset       scrollOffset when it was called                          *)
(*   listBefore   the tags of the list when it was called                  *)
(*   freeHeap     the free heap notifyEarthquake read                      *)
(*   event        the frame was an event that passed the filters           *)
(*   window       txHashBuffer when that frame arrived                     *)
(*   hash         its identifier                                           *)
(*   payloadOk    its payload is one that decodes                          *)
(*   maxScale     the maxScale of its payload                              *)
(*   dedup        duplicate check: "none" | "duplicate" | "admitted"       *)
(*   decoded      the handler decoded the payload                          *)
(*   handshake    the connection had been subscribed when the frame came   *)
(*   sent         texts sent to the feed                                   *)
(*   attempt, connected   connectWebSocket was called / succeeded          *)
(*   gap, run     time since the last failed attempt (-1 = none) and the   *)
(*                failed attempts in a row before this one                 *)
(*   failuresBefore   consecutiveFailures when the step began              *)
(***************************************************************************)
ObsNone ==
    [op |-> "none", notify |-> "none", arg |-> 0, pending |-> <<>>, started |-> 0,
     audioBusy |-> FALSE, visualBusy |-> FALSE, cancel |-> FALSE, tone |-> 0,
     toneAfterCancel |-> FALSE, freeHeap |-> 0, event |-> FALSE, hash |-> "",
     payloadOk |-> FALSE, window |-> <<>>,
     dedup |-> "none", decoded |-> FALSE, handshake |-> FALSE,
     sent |-> <<>>, attempt |-> FALSE, connected |-> FALSE, gap |-> -1, run |-> 0,
     failuresBefore |-> 0,
     inserted |-> FALSE, engaged |-> FALSE, offset |-> 0, listBefore |-> <<>>,
     severity |-> "", idleTouch |-> FALSE, scheduler |-> <<>>,
     pendingAtCancel |-> 0, pongTimeout |-> FALSE, sinceTimeout |-> -1,
     ping |-> FALSE, watchdog |-> FALSE, sinceWatchdog |-> -1,
     due |-> FALSE, uidFrame |-> FALSE, uid |-> "", signed |-> FALSE, signer |-> "",
     stores |-> <<>>, wasConnected |-> FALSE, pingDue |-> FALSE, pingAccepted |-> FALSE,
     pingBefore |-> 0, beepsDone |-> FALSE, doneCount |-> 0, doneTones |-> <<>>,
     maxScale |-> 0, coast |-> 0, sinceClose |-> -1, sinceConnect |-> -1,
     sampled |-> FALSE, critical |-> FALSE, pressure |-> -1]

Begin(s, op) ==
    [s EXCEPT !.obs = [ObsNone EXCEPT !.op = op,
                                      !.failuresBefore = s.consecutiveFailures]]

earthquakeCount == Len(earthquakeList)

\* the state of the connection: closed, open with no subscribe request sent
\* yet, or open and subscribed (connect() is synchronous, so Connecting is
\* never seen between two steps)
ConnStateOf(s) ==
    IF ~s.clientOpen THEN "Disconnected"
    ELSE IF s.serverSubscription = "" THEN "AwaitingHandshakeId"
    ELSE "Subscribed"

\* a step of webSocketLoop ends: a changed connection state joins the path
Track(s) ==
    IF s.loopPath # <<>> /\ s.loopPath[Len(s.loopPath)] # ConnStateOf(s)
    THEN [s EXCEPT !.loopPath = Append(@, ConnStateOf(s))]
    ELSE s

\* webSocketLoop is entered: the path starts at the current state
Enter(s) == [s EXCEPT !.loopPath = <<ConnStateOf(s)>>]

(***************************************************************************)
(* display.cpp: the list store                                             *)
(***************************************************************************)
\* variant: the records are copied last first
AddEarthquakesToListReversed(list, data) ==
    LET n == Min(Len(data), MAX_EARTHQUAKE_LIST - Len(list))
    IN list \o [i \in 1..n |-> data[n + 1 - i]]

\* addEarthquakesToList: the records are copied in order behind those already
\* in the list, as long as the list has room
AddEarthquakesToList(list, data) ==
    LET n == Min(Len(data), MAX_EARTHQUAKE_LIST - Len(list))
    IN list \o [i \in 1..n |-> data[i]]

\* initDisplay: the empty list seeded with the records of earthquakeDataBuffer
InitDisplay(buffer) == AddEarthquakesToList(<<>>, buffer)

IsUserScrolling(s) == s.isDragging \/ s.scrollOffset > 0

CalculateMaxScrollOffset(s) ==
    LET totalContentHeight == Len(s.earthquakeList) * (CARD_HEIGHT + CARD_MARGIN)
        maxOffset == totalContentHeight - VISIBLE_AREA_HEIGHT
    IN IF maxOffset > 0 THEN maxOffset ELSE 0

\* variant: the offset is not limited from above
SetScrollOffsetNoUpperLimit(s, offset) ==
    LET m == CalculateMaxScrollOffset(s)
    IN [s EXCEPT !.maxScrollOffset = m,
                 !.scrollOffset = IF offset < 0 THEN 0 ELSE offset]

SetScrollOffset(s, offset) ==
    LET m == CalculateMaxScrollOffset(s)
    IN [s EXCEPT !.maxScrollOffset = m,
                 !.scrollOffset = IF offset < 0 THEN 0
                                  ELSE IF offset > m THEN m ELSE offset]

\* M5.Touch.getDetail(): isPressed() holds for every touching state
IsPressed(t) == t.state \in {"touch", "hold"}
IsHolding(t) == t.state = "hold"
WasReleased(t) == t.state = "released"

HandleTouch(s) ==
    IF IsPressed(s.touch) \/ IsHolding(s.touch) THEN
        IF s.touch.y < HEADER_HEIGHT THEN s
        ELSE IF ~s.isDragging THEN
            [s EXCEPT !.isDragging = TRUE, !.lastTouchY = s.touch.y, !.scrollVelocity = 0]
        ELSE
            LET deltaY == s.touch.y - s.lastTouchY
            IN IF deltaY # 0
               THEN [SetScrollOffset(s, s.scrollOffset - deltaY)
                        EXCEPT !.lastTouchY = s.touch.y, !.scrollVelocity = -deltaY]
               ELSE s
    ELSE IF WasReleased(s.touch) THEN
        IF s.isDragging THEN [s EXCEPT !.isDragging = FALSE, !.lastTouchY = -1] ELSE s
    ELSE [s EXCEPT !.isDragging = FALSE, !.lastTouchY = -1]

Abs(v) == IF v < 0 THEN -v ELSE v

\* variant: the product rounded away from zero
DecayRoundsAwayFromZero(v) ==
    IF v >= 0 THEN (v * 92 + 99) \div 100 ELSE -((-v * 92 + 99) \div 100)

\* (int)(scrollVelocity * 0.92f): the product truncated toward zero
Decay(v) == IF v >= 0 THEN (v * 92) \div 100 ELSE -((-v * 92) \div 100)

ApplyInertiaScroll(s) ==
    IF s.isDragging THEN s
    ELSE IF Abs(s.scrollVelocity) < 1 THEN [s EXCEPT !.scrollVelocity = 0]
    ELSE [SetScrollOffset(s, s.scrollOffset + s.scrollVelocity)
             EXCEPT !.scrollVelocity = Decay(s.scrollVelocity),
                    !.obs.coast = s.scrollVelocity]

UpdateDisplayBody(s) ==
    IF Len(s.earthquakeList) = 0 THEN s ELSE ApplyInertiaScroll(HandleTouch(s))

\* variant: the view jumps to the top whatever the user is doing
AddEarthquakeToDisplayAlwaysToTop(s, data) ==
    IF data.maxIntensity = "" THEN s
    ELSE
        LET kept == IF Len(s.earthquakeList) >= MAX_EARTHQUAKE_LIST
                    THEN SubSeq(s.earthquakeList, 1, MAX_EARTHQUAKE_LIST - 1)
                    ELSE s.earthquakeList
        IN [s EXCEPT !.earthquakeList = <<data>> \o kept,
                     !.scrollOffset = 0,
                     !.obs.inserted = TRUE,
                     !.obs.engaged = IsUserScrolling(s),
                     !.obs.offset = s.scrollOffset,
                     !.obs.listBefore = [i \in DOMAIN s.earthquakeList |->
                                            s.earthquakeList[i].seq]]

\* variant: a full list gives up its newest entry, not its oldest
AddEarthquakeToDisplayDropsNewest(s, data) ==
    IF data.maxIntensity = "" THEN s
    ELSE
        LET kept == IF Len(s.earthquakeList) >= MAX_EARTHQUAKE_LIST
                    THEN SubSeq(s.earthquakeList, 2, MAX_EARTHQUAKE_LIST)
                    ELSE s.earthquakeList
        IN [s EXCEPT !.earthquakeList = <<data>> \o kept,
                     !.scrollOffset = IF ~IsUserScrolling(s) THEN 0 ELSE @,
                     !.obs.inserted = TRUE,
                     !.obs.engaged = IsUserScrolling(s),
                     !.obs.offset = s.scrollOffset,
                     !.obs.listBefore = [i \in DOMAIN s.earthquakeList |->
                                            s.earthquakeList[i].seq]]

\* variant: the record is appended after the last entry
AddEarthquakeToDisplayAtTail(s, data) ==
    IF data.maxIntensity = "" THEN s
    ELSE
        LET kept == IF Len(s.earthquakeList) >= MAX_EARTHQUAKE_LIST
                    THEN SubSeq(s.earthquakeList, 1, MAX_EARTHQUAKE_LIST - 1)
                    ELSE s.earthquakeList
        IN [s EXCEPT !.earthquakeList = kept \o <<data>>,
                     !.scrollOffset = IF ~IsUserScrolling(s) THEN 0 ELSE @,
                     !.obs.inserted = TRUE,
                     !.obs.engaged = IsUserScrolling(s),
                     !.obs.offset = s.scrollOffset,
                     !.obs.listBefore = [i \in DOMAIN s.earthquakeList |->
                                            s.earthquakeList[i].seq]]

AddEarthquakeToDisplay(s, data) ==
    IF data.maxIntensity = "" THEN s
    ELSE
        LET kept == IF Len(s.earthquakeList) >= MAX_EARTHQUAKE_LIST
                    THEN SubSeq(s.earthquakeList, 1, MAX_EARTHQUAKE_LIST - 1)
                    ELSE s.earthquakeList
        IN [s EXCEPT !.earthquakeList = <<data>> \o kept,
                     !.scrollOffset = IF ~IsUserScrolling(s) THEN 0 ELSE @,
                     !.obs.inserted = TRUE,
                     !.obs.engaged = IsUserScrolling(s),
                     !.obs.offset = s.scrollOffset,
                     !.obs.listBefore = [i \in DOMAIN s.earthquakeList |->
                                            s.earthquakeList[i].seq]]

(***************************************************************************)
(* notification.cpp: the notification scheduler                            *)
(***************************************************************************)
\* the pending records, head first
Pending(s) ==
    [i \in 1..s.queueCount |->
        s.notificationQueue[(s.queueHead + i - 1) % NOTIFICATION_QUEUE_SIZE]]

PendingTags(s) == [i \in 1..s.queueCount |-> Pending(s)[i].seq]

\* M5.Speaker.tone(): a tone of the record whose beeps are running
Tone(s) ==
    IF s.isSpeakerEnabled
    THEN [s EXCEPT !.obs.tone = s.activeSeq,
                   !.obs.toneAfterCancel = s.activeSeq \in s.cancelledSeqs,
                   !.tones = Append(@, s.now)]
    ELSE s

PlayBeepSound(s, count) ==
    Tone([s EXCEPT !.beepCount = count, !.beepPlayed = 0, !.lastBeepTime = s.now,
                   !.tones = <<>>])

FlashScreen(s, color) ==
    [s EXCEPT !.isFlashing = TRUE, !.flashStartTime = s.now, !.flashColor = color]

\* variant: the newest pending record is taken instead of the oldest
ProcessNotificationQueueNewestFirst(s) ==
    IF s.beepCount > 0 THEN s
    ELSE IF s.queueCount = 0 THEN s
    ELSE
        LET last == (s.queueTail + NOTIFICATION_QUEUE_SIZE - 1) % NOTIFICATION_QUEUE_SIZE
            data == s.notificationQueue[last]
            s1 == [s EXCEPT !.queueTail = last,
                            !.queueCount = @ - 1,
                            !.playLog = Append(@, data.seq),
                            !.activeSeq = data.seq,
                            !.obs.started = data.seq,
                            !.obs.severity = data.maxIntensity,
                            !.obs.audioBusy = s.beepPlayed < s.beepCount,
                            !.obs.visualBusy = s.isFlashing]
            s2 == PlayBeepSound(s1, GetBeepCountForIntensity(data.maxIntensity))
            s3 == FlashScreen(s2, GetIntensityColor(data.maxIntensity))
        IN AddEarthquakeToDisplay(s3, data)

ProcessNotificationQueue(s) ==
    IF s.beepCount > 0 THEN s
    ELSE IF s.queueCount = 0 THEN s
    ELSE
        LET data == s.notificationQueue[s.queueHead]
            s1 == [s EXCEPT !.queueHead = (@ + 1) % NOTIFICATION_QUEUE_SIZE,
                            !.queueCount = @ - 1,
                            !.playLog = Append(@, data.seq),
                            !.activeSeq = data.seq,
                            !.obs.started = data.seq,
                            !.obs.severity = data.maxIntensity,
                            !.obs.audioBusy = s.beepPlayed < s.beepCount,
                            !.obs.visualBusy = s.isFlashing]
            s2 == PlayBeepSound(s1, GetBeepCountForIntensity(data.maxIntensity))
            s3 == FlashScreen(s2, GetIntensityColor(data.maxIntensity))
        IN AddEarthquakeToDisplay(s3, data)

\* variant: a full queue turns the new record away
NotifyEarthquakeRejectWhenFull(s, data, freeHeap) ==
    LET s0 == [s EXCEPT !.obs.notify = "skipped", !.obs.arg = data.seq,
                        !.obs.pending = PendingTags(s), !.obs.freeHeap = freeHeap]
    IN IF freeHeap < NOTIFY_MIN_FREE_HEAP THEN s0
       ELSE IF data.maxIntensity = "" THEN s0
       ELSE IF s0.queueCount >= NOTIFICATION_QUEUE_SIZE THEN s0
       ELSE ProcessNotificationQueue(
               [s0 EXCEPT !.notificationQueue[s0.queueTail] = data,
                          !.queueTail = (@ + 1) % NOTIFICATION_QUEUE_SIZE,
                          !.queueCount = @ + 1,
                          !.obs.notify = "accepted"])

\* variant: a full queue gives up its newest pending record, not its oldest
NotifyEarthquakeEvictNewest(s, data, freeHeap) ==
    LET s0 == [s EXCEPT !.obs.notify = "skipped", !.obs.arg = data.seq,
                        !.obs.pending = PendingTags(s), !.obs.freeHeap = freeHeap]
    IN IF freeHeap < NOTIFY_MIN_FREE_HEAP THEN s0
       ELSE IF data.maxIntensity = "" THEN s0
       ELSE
           LET s1 == IF s0.queueCount >= NOTIFICATION_QUEUE_SIZE
                     THEN [s0 EXCEPT !.queueTail = (@ + NOTIFICATION_QUEUE_SIZE - 1)
                                                       % NOTIFICATION_QUEUE_SIZE,
                                     !.queueCount = @ - 1]
                     ELSE s0
               s2 == [s1 EXCEPT !.notificationQueue[s1.queueTail] = data,
                                !.queueTail = (@ + 1) % NOTIFICATION_QUEUE_SIZE,
                                !.queueCount = @ + 1,
                                !.obs.notify = "accepted"]
           IN ProcessNotificationQueue(s2)

\* variant: a full queue moves its head on and keeps its count
NotifyEarthquakeOverflowKeepsCount(s, data, freeHeap) ==
    LET s0 == [s EXCEPT !.obs.notify = "skipped", !.obs.arg = data.seq,
                        !.obs.pending = PendingTags(s), !.obs.freeHeap = freeHeap]
    IN IF freeHeap < NOTIFY_MIN_FREE_HEAP THEN s0
       ELSE IF data.maxIntensity = "" THEN s0
       ELSE
           LET s1 == IF s0.queueCount >= NOTIFICATION_QUEUE_SIZE
                     THEN [s0 EXCEPT !.queueHead = (@ + 1) % NOTIFICATION_QUEUE_SIZE]
                     ELSE s0
               s2 == [s1 EXCEPT !.notificationQueue[s1.queueTail] = data,
                                !.queueTail = (@ + 1) % NOTIFICATION_QUEUE_SIZE,
                                !.queueCount = @ + 1,
                                !.obs.notify = "accepted"]
           IN ProcessNotificationQueue(s2)

\* variant: the record a full queue gives up is put into the list
NotifyEarthquakeListsEvicted(s, data, freeHeap) ==
    LET s0 == [s EXCEPT !.obs.notify = "skipped", !.obs.arg = data.seq,
                        !.obs.pending = PendingTags(s), !.obs.freeHeap = freeHeap]
    IN IF freeHeap < NOTIFY_MIN_FREE_HEAP THEN s0
       ELSE IF data.maxIntensity = "" THEN s0
       ELSE
           LET s1 == IF s0.queueCount >= NOTIFICATION_QUEUE_SIZE
                     THEN [AddEarthquakeToDisplay(s0, s0.notificationQueue[s0.queueHead])
                              EXCEPT !.queueHead = (@ + 1) % NOTIFICATION_QUEUE_SIZE,
                                     !.queueCount = @ - 1]
                     ELSE s0
               s2 == [s1 EXCEPT !.notificationQueue[s1.queueTail] = data,
                                !.queueTail = (@ + 1) % NOTIFICATION_QUEUE_SIZE,
                                !.queueCount = @ + 1,
                                !.obs.notify = "accepted"]
           IN ProcessNotificationQueue(s2)

NotifyEarthquake(s, data, freeHeap) ==
    LET s0 == [s EXCEPT !.obs.notify = "skipped", !.obs.arg = data.seq,
                        !.obs.pending = PendingTags(s), !.obs.freeHeap = freeHeap]
    IN IF freeHeap < NOTIFY_MIN_FREE_HEAP THEN s0
       ELSE IF data.maxIntensity = "" THEN s0
       ELSE
           LET s1 == IF s0.queueCount >= NOTIFICATION_QUEUE_SIZE
                     THEN [s0 EXCEPT !.queueHead = (@ + 1) % NOTIFICATION_QUEUE_SIZE,
                                     !.queueCount = @ - 1]
                     ELSE s0
               s2 == [s1 EXCEPT !.notificationQueue[s1.queueTail] = data,
                                !.queueTail = (@ + 1) % NOTIFICATION_QUEUE_SIZE,
                                !.queueCount = @ + 1,
                                !.obs.notify = "accepted"]
           IN ProcessNotificationQueue(s2)

\* the scheduler's own variables: pending queue, audio state, visual state
Scheduler(s) ==
    <<s.notificationQueue, s.queueHead, s.queueTail, s.queueCount,
      s.beepCount, s.beepPlayed, s.lastBeepTime,
      s.isFlashing, s.flashStartTime, s.flashColor>>

\* variant: a touch while nothing flashes shows the last flash again
UpdateFlashScreenTouchReplays(s) ==
    IF ~s.isFlashing
    THEN IF IsPressed(s.touch)
         THEN [s EXCEPT !.isFlashing = TRUE, !.flashStartTime = s.now]
         ELSE s
    ELSE IF IsPressed(s.touch)
    THEN [s EXCEPT !.isFlashing = FALSE, !.obs.cancel = TRUE,
                   !.obs.pendingAtCancel = s.queueCount,
                   !.cancelledSeqs = @ \cup {s.activeSeq}]
    ELSE IF Elapsed(s.now, s.flashStartTime) >= FLASH_DURATION_MS
    THEN [s EXCEPT !.isFlashing = FALSE]
    ELSE s

UpdateFlashScreen(s) ==
    IF ~s.isFlashing THEN s
    ELSE IF IsPressed(s.touch)
    THEN [s EXCEPT !.isFlashing = FALSE, !.obs.cancel = TRUE,
                   !.obs.pendingAtCancel = s.queueCount,
                   !.cancelledSeqs = @ \cup {s.activeSeq}]
    ELSE IF Elapsed(s.now, s.flashStartTime) >= FLASH_DURATION_MS
    THEN [s EXCEPT !.isFlashing = FALSE]
    ELSE s

\* variant: a tone is started in every slot, the last one included
UpdateBeepToneInLastSlot(s) ==
    IF s.beepPlayed < s.beepCount
    THEN IF Elapsed(s.now, s.lastBeepTime) >= BEEP_DURATION_MS + BEEP_INTERVAL_MS
         THEN LET s1 == [Tone(s) EXCEPT !.beepPlayed = @ + 1]
              IN IF s1.beepPlayed < s1.beepCount
                 THEN [s1 EXCEPT !.lastBeepTime = s.now]
                 ELSE ProcessNotificationQueue(
                          [s1 EXCEPT !.beepCount = 0,
                                     !.obs.beepsDone = TRUE,
                                     !.obs.doneCount = s.beepCount,
                                     !.obs.doneTones = s1.tones,
                                     !.tones = <<>>])
         ELSE s
    ELSE s

\* variant: the end of a beep sequence does not look at the pending queue
UpdateBeepLeavesQueue(s) ==
    IF s.beepPlayed < s.beepCount
    THEN IF Elapsed(s.now, s.lastBeepTime) >= BEEP_DURATION_MS + BEEP_INTERVAL_MS
         THEN LET s1 == [s EXCEPT !.beepPlayed = @ + 1]
              IN IF s1.beepPlayed < s1.beepCount
                 THEN [Tone(s1) EXCEPT !.lastBeepTime = s.now]
                 ELSE [s1 EXCEPT !.beepCount = 0,
                                 !.obs.beepsDone = TRUE,
                                 !.obs.doneCount = s.beepCount,
                                 !.obs.doneTones = s.tones,
                                 !.tones = <<>>]
         ELSE s
    ELSE s

\* the beep state machine of updateNotification
UpdateBeep(s) ==
    IF s.beepPlayed < s.beepCount
    THEN IF Elapsed(s.now, s.lastBeepTime) >= BEEP_DURATION_MS + BEEP_INTERVAL_MS
         THEN LET s1 == [s EXCEPT !.beepPlayed = @ + 1]
              IN IF s1.beepPlayed < s1.beepCount
                 THEN [Tone(s1) EXCEPT !.lastBeepTime = s.now]
                 ELSE ProcessNotificationQueue(
                          [s1 EXCEPT !.beepCount = 0,
                                     !.obs.beepsDone = TRUE,
                                     !.obs.doneCount = s.beepCount,
                                     !.obs.doneTones = s.tones,
                                     !.tones = <<>>])
         ELSE s
    ELSE s

UpdateNotificationBody(s) == UpdateFlashScreen(UpdateBeep(s))

(***************************************************************************)
(* websocket.cpp: the duplicate window                                     *)
(***************************************************************************)
\* variant: a slot that was never written matches nothing
IsDuplicateTransactionUsedSlots(s, txHash) ==
    \E i \in 0..(TX_HASH_BUFFER_SIZE - 1) :
        s.txHashBuffer[i] # "" /\ s.txHashBuffer[i] = txHash

IsDuplicateTransaction(s, txHash) ==
    \E i \in 0..(TX_HASH_BUFFER_SIZE - 1) : s.txHashBuffer[i] = txHash

AddTransactionHash(s, txHash) ==
    [s EXCEPT !.txHashBuffer[s.txHashIndex] = txHash,
              !.txHashIndex = (@ + 1) % TX_HASH_BUFFER_SIZE]

(***************************************************************************)
(* websocket.cpp: the connection manager                                   *)
(***************************************************************************)
\* variant: the failure counter survives a successful connect
OnWebSocketConnectKeepsCounter(s) ==
    [s EXCEPT !.wsConnected = TRUE, !.uidReceived = FALSE,
              !.serverUid = "", !.lastPingSentTime = 0, !.lastPongReceivedTime = s.now,
              !.pingSent = FALSE]

OnWebSocketConnect(s) ==
    [s EXCEPT !.wsConnected = TRUE, !.consecutiveFailures = 0, !.uidReceived = FALSE,
              !.serverUid = "", !.lastPingSentTime = 0, !.lastPongReceivedTime = s.now,
              !.pingSent = FALSE]

OnWebSocketDisconnect(s) ==
    [s EXCEPT !.wsConnected = FALSE, !.uidReceived = FALSE, !.serverUid = ""]

\* webSocketClient.close(): an open connection is closed, the feed forgets its
\* subscription, and the client reports ConnectionClosed to the event handler
ClientClose(s) ==
    IF s.clientOpen
    THEN OnWebSocketDisconnect([s EXCEPT !.clientOpen = FALSE, !.serverSubscription = ""])
    ELSE s

DisconnectWebSocket(s) ==
    IF s.wsConnected THEN [ClientClose(s) EXCEPT !.wsConnected = FALSE] ELSE s

\* webSocketClient.send(): the text reaches the feed over an open connection
ClientSend(s, text) ==
    IF s.clientOpen THEN [s EXCEPT !.obs.sent = Append(@, text)] ELSE s

\* variant: the request names another channel
SubscribeToTransactionsOtherChannel(s, uid) ==
    LET s1 == ClientSend(s, [uid |-> uid, subscribe |-> "unconfirmedAdded/address"])
    IN IF s.clientOpen THEN [s1 EXCEPT !.serverSubscription = uid] ELSE s1

SubscribeToTransactions(s, uid) ==
    LET s1 == ClientSend(s, [uid |-> uid, subscribe |-> "confirmedAdded/address"])
    IN IF s.clientOpen THEN [s1 EXCEPT !.serverSubscription = uid] ELSE s1

SendPing(s, success) ==
    IF s.wsConnected
    THEN IF success
         THEN [ClientSend(s, [uid |-> "", subscribe |-> "ping"])
                  EXCEPT !.lastPingSentTime = s.now, !.pingSent = TRUE,
                         !.obs.ping = TRUE]
         ELSE s
    ELSE s

CheckPongTimeout(s) ==
    IF s.lastPingSentTime = 0 THEN s
    ELSE IF s.lastPongReceivedTime >= s.lastPingSentTime THEN s
    ELSE IF Elapsed(s.now, s.lastPingSentTime) > PONG_TIMEOUT
    THEN [DisconnectWebSocket(s) EXCEPT !.reconnectTimer = s.now,
                                        !.obs.pongTimeout = TRUE,
                                        !.pongTimeoutTime = s.now]
    ELSE s

\* variant: the watchdog closes the connection and leaves the counter alone
MonitorMemoryKeepsCounter(s, freeHeap) ==
    IF Elapsed(s.now, s.memoryCheckTimer) >= MEMORY_CHECK_INTERVAL
    THEN LET s1 == [s EXCEPT !.memoryCheckTimer = s.now,
                             !.obs.sampled = TRUE,
                             !.obs.critical = freeHeap < CRITICAL_MEMORY_THRESHOLD,
                             !.pressureSince =
                                 IF freeHeap >= CRITICAL_MEMORY_THRESHOLD THEN -1
                                 ELSE IF @ = -1 THEN s.now ELSE @]
         IN IF freeHeap < CRITICAL_MEMORY_THRESHOLD
            THEN [DisconnectWebSocket(s1)
                     EXCEPT !.reconnectTimer = s.now,
                            !.obs.watchdog = s.wsConnected,
                            !.watchdogTime = IF s.wsConnected THEN s.now ELSE @]
            ELSE s1
    ELSE s

\* variant: the watchdog leaves the reconnect timer alone
MonitorMemoryKeepsTimer(s, freeHeap) ==
    IF Elapsed(s.now, s.memoryCheckTimer) >= MEMORY_CHECK_INTERVAL
    THEN LET s1 == [s EXCEPT !.memoryCheckTimer = s.now,
                             !.obs.sampled = TRUE,
                             !.obs.critical = freeHeap < CRITICAL_MEMORY_THRESHOLD,
                             !.pressureSince =
                                 IF freeHeap >= CRITICAL_MEMORY_THRESHOLD THEN -1
                                 ELSE IF @ = -1 THEN s.now ELSE @]
         IN IF freeHeap < CRITICAL_MEMORY_THRESHOLD
            THEN [DisconnectWebSocket(s1)
                     EXCEPT !.consecutiveFailures = MAX_CONSECUTIVE_FAILURES,
                            !.obs.watchdog = s.wsConnected,
                            !.watchdogTime = IF s.wsConnected THEN s.now ELSE @]
            ELSE s1
    ELSE s

MonitorMemory(s, freeHeap) ==
    IF Elapsed(s.now, s.memoryCheckTimer) >= MEMORY_CHECK_INTERVAL
    THEN LET s1 == [s EXCEPT !.memoryCheckTimer = s.now,
                             !.obs.sampled = TRUE,
                             !.obs.critical = freeHeap < CRITICAL_MEMORY_THRESHOLD,
                             !.pressureSince =
                                 IF freeHeap >= CRITICAL_MEMORY_THRESHOLD THEN -1
                                 ELSE IF @ = -1 THEN s.now ELSE @]
         IN IF freeHeap < CRITICAL_MEMORY_THRESHOLD
            THEN [DisconnectWebSocket(s1)
                     EXCEPT !.reconnectTimer = s.now,
                            !.consecutiveFailures = MAX_CONSECUTIVE_FAILURES,
                            !.obs.watchdog = s.wsConnected,
                            !.watchdogTime = IF s.wsConnected THEN s.now ELSE @]
            ELSE s1
    ELSE s

(***************************************************************************)
(* Frames. A frame is the received text described by what the handler      *)
(* finds in its JSON document.                                             *)
(***************************************************************************)
Frame(json, hasUid, uid, data, topic, transaction, signer, message, hash) ==
    [json |-> json, hasUid |-> hasUid, uid |-> uid, data |-> data, topic |-> topic,
     transaction |-> transaction, signerPublicKey |-> signer, message |-> message,
     hash |-> hash]

UidFrame(uid) == Frame(TRUE, TRUE, uid, FALSE, FALSE, FALSE, "", EmptyMessage, "")
AckFrame == Frame(TRUE, FALSE, "", FALSE, FALSE, FALSE, "", EmptyMessage, "")
BadJsonFrame == Frame(FALSE, FALSE, "", FALSE, FALSE, FALSE, "", EmptyMessage, "")
NoTransactionFrame == Frame(TRUE, FALSE, "", TRUE, TRUE, FALSE, "", EmptyMessage, "")
EventFrame(hash, signer, message) ==
    Frame(TRUE, FALSE, "", TRUE, TRUE, TRUE, signer, message, hash)

IsEventFrame(frame) == frame.json /\ frame.data /\ frame.transaction

\* variant: the payload is decoded before the identifier is looked up
HandleWebSocketMessageDecodeFirst(s, frame, freeHeap) ==
    IF ~frame.json THEN s
    ELSE IF frame.hasUid /\ ~frame.data /\ ~frame.topic
    THEN SubscribeToTransactions(
            [s EXCEPT !.serverUid = frame.uid, !.uidReceived = TRUE], frame.uid)
    ELSE IF ~frame.data THEN s
    ELSE IF ~frame.transaction THEN s
    ELSE IF s.signerPubKey # "" /\ frame.signerPublicKey # s.signerPubKey THEN s
    ELSE IF frame.message.length = 0 THEN s
    ELSE
        LET txHash == frame.hash
            parsed == ParseWebSocketMessage(frame.message, s.nextSeq + 1)
            s0 == [s EXCEPT !.obs.event = TRUE, !.obs.hash = txHash,
                            !.obs.window = s.txHashBuffer,
                            !.obs.payloadOk = parsed.ok,
                            !.obs.handshake = s.serverSubscription # ""]
        IN IF ~parsed.ok THEN s0
           ELSE IF IsDuplicateTransaction(s0, txHash)
           THEN [s0 EXCEPT !.obs.dedup = "duplicate"]
           ELSE NotifyEarthquake(
                   [AddTransactionHash(s0, txHash)
                       EXCEPT !.obs.dedup = "admitted",
                              !.admitLog = Append(@, [hash |-> txHash, decoded |-> TRUE]),
                              !.nextSeq = @ + 1, !.obs.decoded = TRUE],
                   parsed.data, freeHeap)

\* the duplicate window, the scheduler and the list
Stores(s) == <<s.txHashBuffer, s.txHashIndex, Scheduler(s), s.earthquakeList>>

\* variant: the signer filter is not applied
HandleWebSocketMessageAnySigner(s, frame, freeHeap) ==
    IF ~frame.json THEN s
    ELSE IF frame.hasUid /\ ~frame.data /\ ~frame.topic
    THEN SubscribeToTransactions(
            [s EXCEPT !.serverUid = frame.uid, !.uidReceived = TRUE,
                      !.obs.uidFrame = TRUE, !.obs.uid = frame.uid,
                      !.obs.stores = Stores(s)], frame.uid)
    ELSE IF ~frame.data THEN s
    ELSE IF ~frame.transaction THEN s
    ELSE IF frame.message.length = 0 THEN s
    ELSE
        LET txHash == frame.hash
            s0 == [s EXCEPT !.obs.event = TRUE, !.obs.hash = txHash,
                            !.obs.signed = TRUE,
                            !.obs.signer = frame.signerPublicKey,
                            !.obs.stores = Stores(s),
                            !.obs.window = s.txHashBuffer,
                            !.obs.payloadOk = ParseWebSocketMessage(frame.message, 0).ok,
                            !.obs.maxScale = frame.message.maxScale,
                            !.obs.handshake = s.serverSubscription # ""]
        IN IF IsDuplicateTransaction(s0, txHash)
           THEN [s0 EXCEPT !.obs.dedup = "duplicate"]
           ELSE
               LET parsed == ParseWebSocketMessage(frame.message, s.nextSeq + 1)
                   s1 == [AddTransactionHash(s0, txHash)
                             EXCEPT !.obs.dedup = "admitted",
                                    !.admitLog = Append(@, [hash |-> txHash,
                                                            decoded |-> parsed.ok])]
               IN IF ~parsed.ok THEN s1
                  ELSE NotifyEarthquake(
                          [s1 EXCEPT !.nextSeq = @ + 1, !.obs.decoded = TRUE],
                          parsed.data, freeHeap)

HandleWebSocketMessage(s, frame, freeHeap) ==
    IF ~frame.json THEN s
    ELSE IF frame.hasUid /\ ~frame.data /\ ~frame.topic
    THEN SubscribeToTransactions(
            [s EXCEPT !.serverUid = frame.uid, !.uidReceived = TRUE,
                      !.obs.uidFrame = TRUE, !.obs.uid = frame.uid,
                      !.obs.stores = Stores(s)], frame.uid)
    ELSE IF ~frame.data THEN s
    ELSE IF ~frame.transaction THEN s
    ELSE IF s.signerPubKey # "" /\ frame.signerPublicKey # s.signerPubKey
    THEN [s EXCEPT !.obs.signed = frame.message.length # 0,
                   !.obs.signer = frame.signerPublicKey,
                   !.obs.stores = Stores(s)]
    ELSE IF frame.message.length = 0 THEN s
    ELSE
        LET txHash == frame.hash
            s0 == [s EXCEPT !.obs.event = TRUE, !.obs.hash = txHash,
                            !.obs.signed = TRUE,
                            !.obs.signer = frame.signerPublicKey,
                            !.obs.stores = Stores(s),
                            !.obs.window = s.txHashBuffer,
                            !.obs.payloadOk = ParseWebSocketMessage(frame.message, 0).ok,
                            !.obs.maxScale = frame.message.maxScale,
                            !.obs.handshake = s.serverSubscription # ""]
        IN IF IsDuplicateTransaction(s0, txHash)
           THEN [s0 EXCEPT !.obs.dedup = "duplicate"]
           ELSE
               LET parsed == ParseWebSocketMessage(frame.message, s.nextSeq + 1)
                   s1 == [AddTransactionHash(s0, txHash)
                             EXCEPT !.obs.dedup = "admitted",
                                    !.admitLog = Append(@, [hash |-> txHash,
                                                            decoded |-> parsed.ok])]
               IN IF ~parsed.ok THEN s1
                  ELSE NotifyEarthquake(
                          [s1 EXCEPT !.nextSeq = @ + 1, !.obs.decoded = TRUE],
                          parsed.data, freeHeap)

\* variant: the short interval whatever the number of failures
ReconnectIntervalNoBackoff(failures) == RECONNECT_INTERVAL

ReconnectInterval(failures) ==
    IF failures >= MAX_CONSECUTIVE_FAILURES THEN BACKOFF_INTERVAL ELSE RECONNECT_INTERVAL

\* webSocketClient.connect(): on success the client reports ConnectionOpened
\* to the event handler before connect() returns
ConnectWebSocket(s, connected) ==
    LET s0 == [s EXCEPT !.obs.attempt = TRUE, !.obs.connected = connected,
                        !.obs.failuresBefore = s.consecutiveFailures,
                        !.obs.run = s.failRun,
                        !.obs.gap = IF s.lastFailTime = -1 THEN -1
                                    ELSE Elapsed(s.now, s.lastFailTime),
                        !.pongTimeoutTime = -1, !.watchdogTime = -1,
                        !.closeTime = -1,
                        !.connectTime = IF connected THEN s.now ELSE -1]
    IN IF ~connected
       THEN [s0 EXCEPT !.consecutiveFailures = @ + 1,
                       !.lastFailTime = s.now, !.failRun = @ + 1]
       ELSE OnWebSocketConnect(
               [s0 EXCEPT !.clientOpen = TRUE, !.serverSubscription = "", !.failRun = 0])

\* variant: no more attempts once the counter has reached the maximum
ReconnectGivesUp(s, connected) ==
    IF /\ s.consecutiveFailures < MAX_CONSECUTIVE_FAILURES
       /\ Elapsed(s.now, s.reconnectTimer) >= ReconnectInterval(s.consecutiveFailures)
    THEN IF connected
         THEN ConnectWebSocket(s, TRUE)
         ELSE [ConnectWebSocket(s, FALSE) EXCEPT !.reconnectTimer = s.now]
    ELSE s

\* variant: the reconnect timer is not consulted after a pong timeout
ReconnectAtOnceAfterTimeout(s, connected) ==
    IF \/ s.pongTimeoutTime # -1
       \/ Elapsed(s.now, s.reconnectTimer) >= ReconnectInterval(s.consecutiveFailures)
    THEN IF connected
         THEN ConnectWebSocket(s, TRUE)
         ELSE [ConnectWebSocket(s, FALSE) EXCEPT !.reconnectTimer = s.now]
    ELSE s

\* webSocketLoop with the link up and the feed disconnected
Reconnect(s, connected) ==
    IF Elapsed(s.now, s.reconnectTimer) >= ReconnectInterval(s.consecutiveFailures)
    THEN IF connected
         THEN ConnectWebSocket(s, TRUE)
         ELSE [ConnectWebSocket(s, FALSE) EXCEPT !.reconnectTimer = s.now]
    ELSE s

\* variant: the link flag is not looked at, connects are tried and fail
LinkDownStillConnects(s) == Reconnect(s, FALSE)

\* webSocketLoop with the link down
LinkDown(s) ==
    IF s.wsConnected THEN [DisconnectWebSocket(s) EXCEPT !.consecutiveFailures = 0] ELSE s

\* variant: the ping waits until more than the interval has passed
KeepAliveLatePing(s, pingSuccess) ==
    CheckPongTimeout(
        IF Elapsed(s.now, s.lastPingSentTime) > PING_INTERVAL
        THEN SendPing(s, pingSuccess) ELSE s)

\* webSocketLoop after poll(): the ping timer and the pong timeout
KeepAlive(s, pingSuccess) ==
    CheckPongTimeout(
        IF Elapsed(s.now, s.lastPingSentTime) >= PING_INTERVAL
        THEN SendPing(s, pingSuccess) ELSE s)

\* variant: true only once the handshake identifier has arrived
GetWebSocketConnectedAfterUid(s) == s.wsConnected /\ s.uidReceived

GetWebSocketConnected(s) == s.wsConnected

(***************************************************************************)
(* The state after setup(): initNotification, fetchEarthquakeData,         *)
(* initWebSocket, initDisplay. millis() has advanced by the time setup()   *)
(* took; the list is seeded from earthquakeDataBuffer when the link is up. *)
(***************************************************************************)
NoTouch == [state |-> "none", y |-> 0]
TouchAt(y) == [state |-> "touch", y |-> y]

HistoryRecord(i) == EarthquakeData("history", 40, "3", -i)

Seeds(n) == [i \in 1..Min(n, EARTHQUAKE_DATA_BUFFER) |-> HistoryRecord(i)]

\* setup() with earthquakeDataBuffer holding the records in history, then
\* loop() run up to the clock reading bootTime without a connect attempt: the
\* memory watchdog last ran at timer and left failures in the counter
InitAt(bootTime, linkUp, speaker, pubKey, history, timer, failures) ==
    /\ wsConnected = FALSE
    /\ uidReceived = FALSE
    /\ serverUid = ""
    /\ reconnectTimer = timer
    /\ consecutiveFailures = failures
    /\ txHashBuffer = [i \in 0..(TX_HASH_BUFFER_SIZE - 1) |-> ""]
    /\ txHashIndex = 0
    /\ memoryCheckTimer = timer
    /\ lastPingSentTime = 0
    /\ lastPongReceivedTime = 0
    /\ signerPubKey = IF linkUp THEN pubKey ELSE ""
    /\ isWiFiConnected = linkUp
    /\ isSpeakerEnabled = speaker
    /\ notificationQueue = [i \in 0..(NOTIFICATION_QUEUE_SIZE - 1) |-> NoData]
    /\ queueHead = 0
    /\ queueTail = 0
    /\ queueCount = 0
    /\ beepCount = 0
    /\ beepPlayed = 0
    /\ lastBeepTime = 0
    /\ isFlashing = FALSE
    /\ flashStartTime = 0
    /\ flashColor = 0
    /\ earthquakeList = InitDisplay(IF linkUp THEN history ELSE <<>>)
    /\ scrollOffset = 0
    /\ scrollVelocity = 0
    /\ maxScrollOffset = 0
    /\ lastTouchY = -1
    /\ isDragging = FALSE
    /\ now = bootTime
    /\ touch = NoTouch
    /\ clientOpen = FALSE
    /\ pc = "update"
    /\ polled = 0
    /\ serverSubscription = ""
    /\ nextSeq = 0
    /\ loopPath = <<>>
    /\ pongTimeoutTime = -1
    /\ pingSent = FALSE
    /\ watchdogTime = -1
    /\ closeTime = -1
    /\ connectTime = -1
    /\ pressureSince = -1
    /\ tones = <<>>
    /\ admitLog = <<>>
    /\ playLog = <<>>
    /\ activeSeq = 0
    /\ cancelledSeqs = {}
    /\ lastFailTime = -1
    /\ failRun = 0
    /\ obs = ObsNone
    /\ hashesUsed = 0
    /\ eventsUsed = 0

\* setup() alone
InitFrom(bootTime, linkUp, speaker, pubKey, history) ==
    InitAt(bootTime, linkUp, speaker, pubKey, history, 0, 0)

InitWith(bootTime, linkUp, speaker, pubKey, seeded) ==
    InitFrom(bootTime, linkUp, speaker, pubKey, Seeds(seeded))

(***************************************************************************)
(* The steps of loop()                                                     *)
(***************************************************************************)
\* M5.update(): delta ms have passed since the last pass, the panel reports t;
\* the run lasts horizon ms from the clock reading origin, which may wrap
M5UpdateFrom(origin, delta, t, horizon) ==
    /\ pc = "update"
    /\ Elapsed(now, origin) + delta <= horizon
    /\ Commit([Begin(State, "loop") EXCEPT !.now = (now + delta) % ClockMod, !.touch = t])
    /\ pc' = "display"
    /\ polled' = 0
    /\ UNCHANGED budgets

M5Update(delta, t, horizon) == M5UpdateFrom(0, delta, t, horizon)

UpdateDisplay ==
    /\ pc = "display"
    /\ Commit(UpdateDisplayBody(Begin(State, "updateDisplay")))
    /\ pc' = "ws"
    /\ UNCHANGED <<polled, budgets>>

\* webSocketLoop up to poll(); connected is what webSocketClient.connect() returns
\* variant: a call that has just connected goes on to poll()
WebSocketLoopPollsAfterConnect(connected) ==
    /\ pc = "ws"
    /\ LET s0 == Enter(Begin(State, "webSocketLoop"))
       IN Commit(Track(IF ~isWiFiConnected THEN LinkDown(s0)
                       ELSE IF ~wsConnected THEN Reconnect(s0, connected)
                       ELSE s0))
    /\ pc' = IF ~isWiFiConnected THEN "notif" ELSE IF ~wsConnected' THEN "mem" ELSE "poll"
    /\ polled' = 0
    /\ UNCHANGED budgets

WebSocketLoop(connected) ==
    /\ pc = "ws"
    /\ LET s0 == [Enter(Begin(State, "webSocketLoop"))
                     EXCEPT !.obs.sinceTimeout =
                                IF pongTimeoutTime = -1 THEN -1
                                ELSE Elapsed(now, pongTimeoutTime),
                            !.obs.sinceWatchdog =
                                IF watchdogTime = -1 THEN -1
                                ELSE Elapsed(now, watchdogTime),
                            !.obs.pressure = pressureSince,
                            !.obs.sinceClose =
                                IF closeTime = -1 THEN -1
                                ELSE Elapsed(now, closeTime),
                            !.obs.sinceConnect =
                                IF connectTime = -1 THEN -1
                                ELSE Elapsed(now, connectTime),
                            !.closeTime =
                                IF @ # -1 /\ Elapsed(now, @) >= RECONNECT_INTERVAL
                                THEN -1 ELSE @,
                            !.connectTime =
                                IF @ # -1 /\ Elapsed(now, @) >= RECONNECT_INTERVAL
                                THEN -1 ELSE @,
                            !.obs.due =
                                /\ isWiFiConnected
                                /\ ~wsConnected
                                /\ Elapsed(now, reconnectTimer)
                                       >= ReconnectInterval(consecutiveFailures)]
       IN Commit(Track(IF ~isWiFiConnected THEN LinkDown(s0)
                       ELSE IF ~wsConnected THEN Reconnect(s0, connected)
                       ELSE s0))
    /\ pc' = IF ~isWiFiConnected THEN "notif" ELSE IF ~wsConnected THEN "mem" ELSE "poll"
    /\ polled' = 0
    /\ UNCHANGED budgets

\* poll() delivers a text frame to the onMessage handler
PollMessage(frame, freeHeap) ==
    /\ pc = "poll"
    /\ clientOpen
    /\ polled < MaxPollEvents
    /\ Commit(Track(HandleWebSocketMessage(Begin(State, "handleWebSocketMessage"),
                                           frame, freeHeap)))
    /\ polled' = polled + 1
    /\ eventsUsed' = IF IsEventFrame(frame) THEN eventsUsed + 1 ELSE eventsUsed
    /\ hashesUsed' = IF frame.hash = ToString(hashesUsed + 1) THEN hashesUsed + 1
                     ELSE hashesUsed
    /\ pc' = pc

\* poll() delivers a pong: the GotPong branch of the event handler
PollPong ==
    /\ pc = "poll"
    /\ clientOpen
    /\ polled < MaxPollEvents
    /\ Commit([Begin(State, "onPong") EXCEPT !.lastPongReceivedTime = now])
    /\ polled' = polled + 1
    /\ UNCHANGED <<pc, budgets>>

\* poll() finds the connection closed by the peer: ConnectionClosed
PollClose ==
    /\ pc = "poll"
    /\ clientOpen
    /\ Commit(Track(OnWebSocketDisconnect(
           [Begin(State, "onWebSocketDisconnect")
               EXCEPT !.clientOpen = FALSE, !.serverSubscription = "",
                      !.closeTime = now])))
    /\ polled' = polled + 1
    /\ UNCHANGED <<pc, budgets>>

\* poll() returns; webSocketLoop goes on to the ping timer and the pong timeout
PollDone(pingSuccess) ==
    /\ pc = "poll"
    /\ LET s0 == [Begin(State, "keepAlive")
                     EXCEPT !.obs.wasConnected = wsConnected,
                            !.obs.pingDue =
                                Elapsed(now, lastPingSentTime) >= PING_INTERVAL,
                            !.obs.pingAccepted = pingSuccess,
                            !.obs.pingBefore = lastPingSentTime]
       IN Commit(Track(KeepAlive(s0, pingSuccess)))
    /\ pc' = "mem"
    /\ UNCHANGED <<polled, budgets>>

MonitorMemoryStep(freeHeap) ==
    /\ pc = "mem"
    /\ Commit(Track(MonitorMemory(Begin(State, "monitorMemory"), freeHeap)))
    /\ pc' = "notif"
    /\ UNCHANGED <<polled, budgets>>

UpdateNotification ==
    /\ pc = "notif"
    /\ LET idle == IsPressed(touch) /\ ~isFlashing /\ beepPlayed >= beepCount
           s0 == [Begin(State, "updateNotification")
                     EXCEPT !.obs.idleTouch = idle,
                            !.obs.scheduler = IF idle THEN Scheduler(State) ELSE <<>>]
       IN Commit([UpdateNotificationBody(s0) EXCEPT !.loopPath = <<>>])
    /\ pc' = "update"
    /\ UNCHANGED <<polled, budgets>>

(***************************************************************************)
(* SpecNotify: the scheduler under a live feed. The feed connects at once  *)
(* and delivers events a quarter second apart or faster.                   *)
(***************************************************************************)
NotifyHorizon == 7500
HeapOk == 30000
HeapCritical == 10000

NotifyScales == {10, 70}

NextEvent(scale) == EventFrame(ToString(Min(hashesUsed + 1, MaxHashes)), "", GoodPayload(scale))

InitNotify == InitWith(RECONNECT_INTERVAL, TRUE, TRUE, "", 1)

NextNotify ==
    \/ M5Update(250, NoTouch, NotifyHorizon)
    \/ isFlashing /\ M5Update(250, TouchAt(10), NotifyHorizon)
    \/ UpdateDisplay
    \/ WebSocketLoop(TRUE)
    \/ serverSubscription = "" /\ PollMessage(UidFrame("U1"), HeapOk)
    \/ /\ serverSubscription # ""
       /\ eventsUsed < MaxEvents
       /\ \E sc \in NotifyScales, h \in {HeapOk, HeapCritical} : PollMessage(NextEvent(sc), h)
    \/ PollDone(TRUE)
    \/ MonitorMemoryStep(HeapOk)
    \/ UpdateNotification

SpecNotify == InitNotify /\ [][NextNotify]_vars

(***************************************************************************)
(* SpecDedup: the duplicate window under a feed that repeats identifiers.  *)
(* An event carries no identifier, the first identifier ever used, the     *)
(* latest one, or a new one; its payload decodes or does not. The heap is  *)
(* short while a frame is handled, so notifyEarthquake returns at once and *)
(* the run is about the window alone.                                      *)
(***************************************************************************)
DedupHorizon == 13000

DedupHashes ==
    {"", "1", ToString(hashesUsed), ToString(Min(hashesUsed + 1, MaxHashes))} \ {"0"}

InitDedup == InitWith(RECONNECT_INTERVAL, TRUE, TRUE, "", 0)

Undecoded == {i \in DOMAIN admitLog : ~admitLog[i].decoded}

DedupPayloads ==
    IF Cardinality(Undecoded) < MaxUndecoded
    THEN {GoodPayload(10), BadHexPayload}
    ELSE {GoodPayload(10)}

NextDedup ==
    \/ M5Update(1000, NoTouch, DedupHorizon)
    \/ UpdateDisplay
    \/ WebSocketLoop(TRUE)
    \/ serverSubscription = "" /\ PollMessage(UidFrame("U1"), HeapOk)
    \/ /\ serverSubscription # ""
       /\ eventsUsed < MaxDedupEvents
       /\ \E h \in DedupHashes, m \in DedupPayloads :
              PollMessage(EventFrame(h, "", m), HeapCritical)
    \/ PollDone(TRUE)
    \/ MonitorMemoryStep(HeapOk)
    \/ UpdateNotification

SpecDedup == InitDedup /\ [][NextDedup]_vars

(***************************************************************************)
(* Spec: the connection manager. Connects fail or succeed, the feed sends  *)
(* its frames in any order and at any time, closes the connection, answers *)
(* pings or stays silent, and free memory varies.                          *)
(***************************************************************************)
Horizon == 100000
Deltas == {2500}

Init == \E linkUp \in BOOLEAN : InitWith(0, linkUp, TRUE, "", 1)

Next ==
    \/ \E d \in Deltas : M5Update(d, NoTouch, Horizon)
    \/ UpdateDisplay
    \/ \E connected \in BOOLEAN : WebSocketLoop(connected)
    \/ serverSubscription = "" /\ PollMessage(UidFrame("U1"), HeapOk)
    \/ lastPingSentTime # 0 /\ lastPongReceivedTime < lastPingSentTime /\ PollPong
    \/ PollClose
    \/ \E pingSuccess \in BOOLEAN : PollDone(pingSuccess)
    \/ \E h \in {HeapOk, HeapCritical} : MonitorMemoryStep(h)
    \/ UpdateNotification

Spec == Init /\ [][Next]_vars

(***************************************************************************)
(* SpecFeed: the frame handler under a feed that sends any frame at any    *)
(* time after the connection opened, the handshake frame included or not.  *)
(***************************************************************************)
FeedHorizon == 6250

FeedFrames ==
    {UidFrame("U1"), AckFrame, BadJsonFrame, NoTransactionFrame,
     EventFrame(ToString(Min(hashesUsed + 1, MaxHashes)), "", EmptyMessage)}

InitFeed == InitWith(RECONNECT_INTERVAL, TRUE, TRUE, "", 1)

NextFeed ==
    \/ M5Update(250, NoTouch, FeedHorizon)
    \/ UpdateDisplay
    \/ WebSocketLoop(TRUE)
    \/ \E f \in FeedFrames : PollMessage(f, HeapOk)
    \/ eventsUsed < MaxEvents /\ PollMessage(NextEvent(10), HeapOk)
    \/ PollClose
    \/ PollDone(TRUE)
    \/ MonitorMemoryStep(HeapOk)
    \/ UpdateNotification

SpecFeed == InitFeed /\ [][NextFeed]_vars

(***************************************************************************)
(* SpecScroll: the list under the user's finger. The list starts with four *)
(* records of the historical fetch, enough to scroll; the panel reports a  *)
(* touch in the list area, a release or nothing on every pass, and a few   *)
(* events arrive meanwhile.                                                *)
(***************************************************************************)
ScrollHorizon == 6500
MaxScrollEvents == 2
ScrollSeeds == 4

Released == [state |-> "released", y |-> 0]

ScrollTouches == {NoTouch, TouchAt(100), TouchAt(60), Released}

InitScroll == InitWith(RECONNECT_INTERVAL, TRUE, TRUE, "", ScrollSeeds)

NextScroll ==
    \/ \E t \in ScrollTouches : M5Update(250, t, ScrollHorizon)
    \/ UpdateDisplay
    \/ WebSocketLoop(TRUE)
    \/ serverSubscription = "" /\ PollMessage(UidFrame("U1"), HeapOk)
    \/ /\ serverSubscription # ""
       /\ eventsUsed < MaxScrollEvents
       /\ PollMessage(NextEvent(10), HeapOk)
    \/ PollDone(TRUE)
    \/ MonitorMemoryStep(HeapOk)
    \/ UpdateNotification

SpecScroll == InitScroll /\ [][NextScroll]_vars

(***************************************************************************)
(* SpecList: the list filling up. It starts with the ten records of the    *)
(* historical fetch; the feed delivers at most one event per poll, each of *)
(* severity 1, so that every record is played and none is evicted from the *)
(* queue.                                                                  *)
(***************************************************************************)
ListHorizon == 16250
MaxListEvents == 41
ListSeeds == 10

ListEvent == EventFrame(ToString(hashesUsed + 1), "", GoodPayload(10))

InitList == InitWith(RECONNECT_INTERVAL, TRUE, TRUE, "", ListSeeds)

NextList ==
    \/ M5Update(250, NoTouch, ListHorizon)
    \/ UpdateDisplay
    \/ WebSocketLoop(TRUE)
    \/ serverSubscription = "" /\ PollMessage(UidFrame("U1"), HeapOk)
    \/ /\ serverSubscription # ""
       /\ eventsUsed < MaxListEvents
       /\ polled = 0
       /\ PollMessage(ListEvent, HeapOk)
    \/ PollDone(TRUE)
    \/ MonitorMemoryStep(HeapOk)
    \/ UpdateNotification

SpecList == InitList /\ [][NextList]_vars

(***************************************************************************)
(* SpecSeverity: the scheduler called with records of any severity string, *)
(* the nine severities and strings that are none of them.                  *)
(***************************************************************************)
SeverityHorizon == 6250
MaxSeverityEvents == 2

SeverityStrings == Intensities \cup {"5", "0", "8", "unknown"}

\* notifyEarthquake(data) called where the frame handler calls it
NotifyEarthquakeCall(intensity, freeHeap) ==
    /\ pc = "poll"
    /\ clientOpen
    /\ polled < MaxPollEvents
    /\ Commit(NotifyEarthquake(
           [Begin(State, "notifyEarthquake") EXCEPT !.nextSeq = @ + 1],
           EarthquakeData("loc", 58, intensity, nextSeq + 1), freeHeap))
    /\ polled' = polled + 1
    /\ eventsUsed' = eventsUsed + 1
    /\ UNCHANGED <<pc, hashesUsed>>

InitSeverity == InitWith(RECONNECT_INTERVAL, TRUE, TRUE, "", 1)

NextSeverity ==
    \/ M5Update(250, NoTouch, SeverityHorizon)
    \/ UpdateDisplay
    \/ WebSocketLoop(TRUE)
    \/ serverSubscription = "" /\ PollMessage(UidFrame("U1"), HeapOk)
    \/ /\ serverSubscription # ""
       /\ eventsUsed < MaxSeverityEvents
       /\ \E x \in SeverityStrings : NotifyEarthquakeCall(x, HeapOk)
    \/ PollDone(TRUE)
    \/ MonitorMemoryStep(HeapOk)
    \/ UpdateNotification

SpecSeverity == InitSeverity /\ [][NextSeverity]_vars

(***************************************************************************)
(* SpecValid: the history response and the feed carry payloads the decoder *)
(* accepts and payloads it must refuse.                                    *)
(***************************************************************************)
ValidHorizon == 6250
MaxValidEvents == 2
HistoryLen == 2

OutOfRangeScalePayload == Payload(2, "ok", TRUE, TRUE, TRUE, TRUE, FALSE, 41, "loc", 58)
ZeroMagnitudePayload == Payload(2, "ok", TRUE, TRUE, TRUE, TRUE, FALSE, 15, "loc", 0)

HistoryPayloads ==
    {ZeroMagnitudePayload, NoNamePayload, NegativeMagnitudePayload, OutOfRangeScalePayload}

FeedPayloads ==
    {GoodPayload(70), ZeroMagnitudePayload, NoNamePayload, NegativeMagnitudePayload,
     OutOfRangeScalePayload, BadHexPayload}

InitValid ==
    \E payloads \in [1..HistoryLen -> HistoryPayloads] :
        InitFrom(RECONNECT_INTERVAL, TRUE, TRUE, "", ParseTransactions(payloads, PAGE_SIZE))

NextValid ==
    \/ M5Update(250, NoTouch, ValidHorizon)
    \/ UpdateDisplay
    \/ WebSocketLoop(TRUE)
    \/ serverSubscription = "" /\ PollMessage(UidFrame("U1"), HeapOk)
    \/ /\ serverSubscription # ""
       /\ eventsUsed < MaxValidEvents
       /\ \E p \in FeedPayloads :
              PollMessage(EventFrame(ToString(hashesUsed + 1), "", p), HeapOk)
    \/ PollDone(TRUE)
    \/ MonitorMemoryStep(HeapOk)
    \/ UpdateNotification

SpecValid == InitValid /\ [][NextValid]_vars

(***************************************************************************)
(* SpecSigner: with or without a signer filter, the feed sends handshake   *)
(* frames and event frames signed by the configured key, by another key or *)
(* by nobody.                                                              *)
(***************************************************************************)
SignerHorizon == 6250
MaxSignerEvents == 3

SignerKeys == {"", "K1", "K2"}
Uids == {"U1", "U2"}

InitSigner == \E key \in {"", "K1"} : InitWith(RECONNECT_INTERVAL, TRUE, TRUE, key, 1)

NextSigner ==
    \/ M5Update(250, NoTouch, SignerHorizon)
    \/ UpdateDisplay
    \/ WebSocketLoop(TRUE)
    \/ \E uid \in Uids : PollMessage(UidFrame(uid), HeapOk)
    \/ /\ eventsUsed < MaxSignerEvents
       /\ \E key \in SignerKeys :
              PollMessage(EventFrame(ToString(hashesUsed + 1), key, GoodPayload(10)), HeapOk)
    \/ PollDone(TRUE)
    \/ MonitorMemoryStep(HeapOk)
    \/ UpdateNotification

SpecSigner == InitSigner /\ [][NextSigner]_vars

(***************************************************************************)
(* SpecBeep: beep sequences of one, two and three beeps, with the speaker  *)
(* initialised or not, under passes of loop() 150 or 250 ms apart.         *)
(***************************************************************************)
BeepHorizon == 6500
MaxBeepEvents == 2

BeepDeltas == {150, 250}
BeepScales == {10, 30, 70}

InitBeep == \E speaker \in BOOLEAN : InitWith(RECONNECT_INTERVAL, TRUE, speaker, "", 1)

NextBeep ==
    \/ \E d \in BeepDeltas : M5Update(d, NoTouch, BeepHorizon)
    \/ UpdateDisplay
    \/ WebSocketLoop(TRUE)
    \/ serverSubscription = "" /\ PollMessage(UidFrame("U1"), HeapOk)
    \/ /\ serverSubscription # ""
       /\ eventsUsed < MaxBeepEvents
       /\ \E sc \in BeepScales : PollMessage(NextEvent(sc), HeapOk)
    \/ PollDone(TRUE)
    \/ MonitorMemoryStep(HeapOk)
    \/ UpdateNotification

SpecBeep == InitBeep /\ [][NextBeep]_vars

(***************************************************************************)
(* SpecCoast: the list after the finger has left. The panel reports        *)
(* touches and releases during the first passes and nothing afterwards;    *)
(* the loop keeps running, so every pass applies the inertia.              *)
(***************************************************************************)
CoastHorizon == 12000
CoastDragUntil == 5750

InitCoast == InitWith(RECONNECT_INTERVAL, TRUE, TRUE, "", ScrollSeeds)

NextCoast ==
    \/ /\ now < CoastDragUntil
       /\ \E t \in ScrollTouches : M5Update(250, t, CoastHorizon)
    \/ now >= CoastDragUntil /\ M5Update(250, NoTouch, CoastHorizon)
    \/ UpdateDisplay
    \/ WebSocketLoop(TRUE)
    \/ serverSubscription = "" /\ PollMessage(UidFrame("U1"), HeapOk)
    \/ PollDone(TRUE)
    \/ MonitorMemoryStep(HeapOk)
    \/ UpdateNotification

SpecCoast == InitCoast /\ [][NextCoast]_vars /\ WF_vars(NextCoast)

(***************************************************************************)
(* SpecDrain: a burst of events and the loop that plays it. Events arrive  *)
(* during the first passes, more than the queue holds; afterwards the loop *)
(* keeps running with no further event.                                    *)
(***************************************************************************)
DrainHorizon == 10000
DrainFeedUntil == 6250
MaxDrainEvents == 5

DrainScales == {10, 70}

InitDrain == \E speaker \in BOOLEAN : InitWith(RECONNECT_INTERVAL, TRUE, speaker, "", 1)

NextDrain ==
    \/ M5Update(250, NoTouch, DrainHorizon)
    \/ UpdateDisplay
    \/ WebSocketLoop(TRUE)
    \/ serverSubscription = "" /\ PollMessage(UidFrame("U1"), HeapOk)
    \/ /\ serverSubscription # ""
       /\ now <= DrainFeedUntil
       /\ eventsUsed < MaxDrainEvents
       /\ \E scale \in DrainScales : PollMessage(NextEvent(scale), HeapOk)
    \/ PollDone(TRUE)
    \/ MonitorMemoryStep(HeapOk)
    \/ UpdateNotification

\* loop() is called again for ever: whenever the loop can go on to its next
\* step (it always can, until the clock reaches the horizon at M5.update())
\* it does; whether a frame arrives is up to the feed
LoopSteps == {"update", "display", "ws", "poll", "mem", "notif"}

LoopAdvances ==
    /\ pc = "update" => now + 250 <= DrainHorizon
    /\ pc' \in LoopSteps
    /\ pc' # pc

SpecDrain == InitDrain /\ [][NextDrain]_vars /\ WF_pc(LoopAdvances)

(***************************************************************************)
(* SpecChurn: a feed that accepts connections and closes them again. The   *)
(* loop runs once a second; every connect may succeed or fail and the peer *)
(* may close an open connection at any poll.                               *)
(***************************************************************************)
ChurnHorizon == 20000
ChurnDelta == 1000

InitChurn == InitWith(RECONNECT_INTERVAL, TRUE, TRUE, "", 1)

NextChurn ==
    \/ M5Update(ChurnDelta, NoTouch, ChurnHorizon)
    \/ UpdateDisplay
    \/ \E connected \in BOOLEAN : WebSocketLoop(connected)
    \/ serverSubscription = "" /\ PollMessage(UidFrame("U1"), HeapOk)
    \/ PollClose
    \/ PollDone(TRUE)
    \/ MonitorMemoryStep(HeapOk)
    \/ UpdateNotification

SpecChurn == InitChurn /\ [][NextChurn]_vars

(***************************************************************************)
(* SpecPressure: the device short of memory from startup on. Every reading *)
(* of the free heap is below the hard threshold; connects succeed or fail. *)
(***************************************************************************)
PressureHorizon == 100000

InitPressure == InitWith(0, TRUE, TRUE, "", 1)

NextPressure ==
    \/ M5Update(2500, NoTouch, PressureHorizon)
    \/ UpdateDisplay
    \/ \E connected \in BOOLEAN : WebSocketLoop(connected)
    \/ serverSubscription = "" /\ PollMessage(UidFrame("U1"), HeapCritical)
    \/ PollDone(TRUE)
    \/ MonitorMemoryStep(HeapCritical)
    \/ UpdateNotification

SpecPressure == InitPressure /\ [][NextPressure]_vars

(***************************************************************************)
(* SpecLive: loop() runs for ever (until the run's horizon), free memory   *)
(* stays above the hard threshold, connects fail or succeed, the feed      *)
(* closes the connection (before it first refuses one) and never answers   *)
(* a ping.                                                                 *)
(***************************************************************************)
LiveHorizon == 100000
LiveDelta == 5000

InitLive == InitWith(0, TRUE, TRUE, "", 1)

NextLive ==
    \/ M5Update(LiveDelta, NoTouch, LiveHorizon)
    \/ UpdateDisplay
    \/ \E connected \in BOOLEAN : WebSocketLoop(connected)
    \/ serverSubscription = "" /\ PollMessage(UidFrame("U1"), HeapOk)
    \/ lastFailTime = -1 /\ PollClose
    \/ PollDone(TRUE)
    \/ MonitorMemoryStep(HeapOk)
    \/ UpdateNotification

SpecLive == InitLive /\ [][NextLive]_vars /\ WF_vars(NextLive)

(***************************************************************************)
(* SpecWrap: the clock wraps around during the run. Free memory was below  *)
(* the hard threshold from boot until WrapBoot, so no connect was tried;   *)
(* from then on the feed connects, and answers pings or stays silent.      *)
(***************************************************************************)
WrapHorizon == 100000
WrapLead == 65000

WrapBoot == ClockMod - WrapLead

\* ms from the start of the run to the clock reading time
Since(time) == Elapsed(time, WrapBoot)

InitWrap == InitAt(WrapBoot, TRUE, TRUE, "", Seeds(1), WrapBoot, MAX_CONSECUTIVE_FAILURES)

NextWrap ==
    \/ M5UpdateFrom(WrapBoot, 2500, NoTouch, WrapHorizon)
    \/ UpdateDisplay
    \/ WebSocketLoop(TRUE)
    \/ serverSubscription = "" /\ PollMessage(UidFrame("U1"), HeapOk)
    \/ pingSent /\ Since(lastPongReceivedTime) < Since(lastPingSentTime) /\ PollPong
    \/ PollDone(TRUE)
    \/ MonitorMemoryStep(HeapOk)
    \/ UpdateNotification

SpecWrap == InitWrap /\ [][NextWrap]_vars

(***************************************************************************)
(* Properties                                                              *)
(***************************************************************************)
\* the identifiers admitted before the last frame was checked, oldest first
AdmittedBefore ==
    IF obs.dedup = "admitted" THEN SubSeq(admitLog, 1, Len(admitLog) - 1) ELSE admitLog

\* the positions of the 10 most recent of them
RecentAdmissions == {i \in DOMAIN AdmittedBefore : i > Len(AdmittedBefore) - 10}

RecentlyAdmitted == {AdmittedBefore[i].hash : i \in RecentAdmissions}

UndecodedInWindow ==
    {AdmittedBefore[i].hash : i \in {j \in RecentAdmissions : ~AdmittedBefore[j].decoded}}

ListTags == {earthquakeList[i].seq : i \in DOMAIN earthquakeList}

ConnState ==
    IF ~clientOpen THEN "Disconnected"
    ELSE IF serverSubscription = "" THEN "AwaitingHandshakeId"
    ELSE "Subscribed"

\* C1: the duplicate check rejects an identifier if and only if it is among the
\* 10 most recently admitted identifiers (so one admitted more than 10
\* admissions ago is admitted again).
C1_RejectsIffRecentlyAdmitted ==
    obs.dedup # "none" =>
        ((obs.dedup = "duplicate") <=> (obs.hash \in RecentlyAdmitted))

\* C2 as stated: the queue never holds more than 3 pending records, and every
\* notifyEarthquake call made while 3 are pending removes exactly the head and
\* appends the new record at the tail.
C2_FullQueueAlwaysEvictsHead ==
    /\ queueCount <= 3
    /\ (obs.notify # "none" /\ Len(obs.pending) = 3) =>
           PendingTags(State) = Tail(obs.pending) \o <<obs.arg>>

\* C2: the queue never holds more than 3 pending records; a notifyEarthquake
\* call made with at least 15000 bytes of free heap while 3 are pending removes
\* exactly the head and appends the new record at the tail, and a call made
\* with less free heap is skipped and leaves the queue as it was.
C2_FullQueueEvictsHeadUnlessSkipped ==
    /\ queueCount <= 3
    /\ (obs.notify # "none" /\ obs.freeHeap >= 15000 /\ Len(obs.pending) = 3) =>
           PendingTags(State) = Tail(obs.pending) \o <<obs.arg>>
    /\ (obs.notify # "none" /\ obs.freeHeap < 15000) =>
           (obs.notify = "skipped" /\ PendingTags(State) = obs.pending)

C2_Witness == obs.notify = "accepted" /\ Len(obs.pending) = 3

\* C3: records start playback in the order in which notifyEarthquake was given
\* them: of two records that are both played, the one enqueued first starts
\* first.
C3_PlaybackInArrivalOrder ==
    \A i, j \in DOMAIN playLog : i < j => playLog[i] < playLog[j]

C3_Witness ==
    /\ Len(playLog) >= 3
    /\ \E i \in 1..(Len(playLog) - 1) : playLog[i + 1] > playLog[i] + 1

\* C4: a pending record is dequeued and started only when both the audio
\* channel and the visual channel are idle.
C4_StartsOnlyWhenBothIdle ==
    obs.started # 0 => (~obs.audioBusy /\ ~obs.visualBusy)

\* C5: when a touch cancels a notification, both channels are idle on return
\* from that update call, and no later beep of the cancelled record is emitted.
C5_CancelIdlesBothChannels ==
    /\ obs.cancel => (beepCount = 0 /\ ~isFlashing)
    /\ ~obs.toneAfterCancel

\* C6: every record whose playback is started is inserted into the list as its
\* head, and stays in the list through and after its playback, whether the
\* playback ends by completion or by a touch cancel.
C6_StartedRecordIsCommitted ==
    /\ obs.started # 0 =>
           (earthquakeList # <<>> /\ Head(earthquakeList).seq = obs.started)
    /\ \A i \in DOMAIN playLog : playLog[i] \in ListTags
    /\ \A c \in cancelledSeqs : c \in ListTags

C6_Witness == obs.cancel /\ activeSeq # 0 /\ activeSeq \in ListTags

\* C7: a connect attempt is made no sooner than 5 s after the last failed
\* attempt, and no sooner than 60 s after it when 5 or more attempts in a row
\* have failed; a failed attempt increments the failure counter and records
\* its time as the last attempt.
C7_BackoffBetweenAttempts ==
    /\ (obs.attempt /\ obs.gap # -1) => obs.gap >= 5000
    /\ (obs.attempt /\ obs.run >= 5) => obs.gap >= 60000
    /\ (obs.attempt /\ ~obs.connected) =>
           (consecutiveFailures = obs.failuresBefore + 1 /\ reconnectTimer = now)

C7_Witness == obs.attempt /\ obs.run >= 5 /\ ~obs.connected

\* C8 as stated: an event frame whose payload does not decode leaves the
\* duplicate window unchanged.
C8_FailedDecodeLeavesWindow ==
    (obs.event /\ ~obs.payloadOk) => txHashBuffer = obs.window

\* C8: the identifier of an event frame is checked and admitted before the
\* payload is decoded: after the handler the identifier is in the window
\* whatever the decode did, a later frame with an identifier admitted on a
\* failed decode and still in the window is rejected and not forwarded, and
\* only a frame with a new identifier and a decodable payload is forwarded.
C8_AdmittedBeforeDecode ==
    /\ obs.event => IsDuplicateTransaction(State, obs.hash)
    /\ obs.notify # "none" => (obs.dedup = "admitted" /\ obs.payloadOk)
    /\ (obs.event /\ obs.hash \in UndecodedInWindow) =>
           (obs.dedup = "duplicate" /\ obs.notify = "none")

C8_Witness == obs.event /\ obs.payloadOk /\ obs.hash \in UndecodedInWindow

\* C9: no event frame is processed on a connection before the handshake frame
\* of that connection was processed and the subscribe request sent.
C9_HandshakeBeforeEvents == obs.event => obs.handshake

\* C10 as stated: getWebSocketConnected() is true exactly in the Subscribed
\* state.
C10_TrueExactlyWhenSubscribed ==
    GetWebSocketConnected(State) <=> (ConnState = "Subscribed")

\* C10: getWebSocketConnected() is true exactly while the connection is open,
\* awaiting the handshake identifier or subscribed, and false while
\* disconnected.
C10_TrueExactlyWhileOpen ==
    GetWebSocketConnected(State) <=> (ConnState \in {"AwaitingHandshakeId", "Subscribed"})

C10_Witness == GetWebSocketConnected(State) /\ ConnState = "AwaitingHandshakeId"

\* C11 as stated: a call of webSocketLoop performs at most one transition of
\* the connection state machine.
C11_AtMostOneTransitionPerCall == Len(loopPath) <= 2

\* C11: a call of webSocketLoop performs at most two transitions; once it has
\* moved the connection to Disconnected it leaves it there, so a second
\* transition is always the closing one (Disconnected is on the path only as
\* its first or its last state).
C11_AtMostOneOpeningThenOneClosing ==
    /\ Len(loopPath) <= 3
    /\ \A i \in 2..(Len(loopPath) - 1) : loopPath[i] # "Disconnected"

C11_Witness == loopPath = <<"Disconnected", "AwaitingHandshakeId", "Disconnected">>

\* the record notifyEarthquake was given is the one whose playback it started
HandedRecordPlaying == obs.started = obs.arg /\ activeSeq = obs.arg

\* the record notifyEarthquake was given is the newest entry of the queue
HandedRecordNewestPending ==
    queueCount > 0 /\ PendingTags(State)[queueCount] = obs.arg

\* C12 as stated: every record handed to notifyEarthquake is, right after the
\* call, the record being played or the newest entry of the pending queue.
C12_HandedRecordAlwaysAccepted ==
    obs.notify # "none" => (HandedRecordPlaying \/ HandedRecordNewestPending)

\* C12: a record handed to notifyEarthquake with at least 15000 bytes of free
\* heap is, right after the call, the record being played or the newest entry
\* of the pending queue, a full queue included; one handed over with less free
\* heap is dropped, and queue and playback stay as they were.
C12_HandedRecordAcceptedUnlessHeapShort ==
    /\ (obs.notify # "none" /\ obs.freeHeap >= 15000) =>
           (HandedRecordPlaying \/ HandedRecordNewestPending)
    /\ (obs.notify # "none" /\ obs.freeHeap < 15000) =>
           /\ ~HandedRecordPlaying
           /\ ~HandedRecordNewestPending
           /\ PendingTags(State) = obs.pending
           /\ obs.started = 0

C12_Witness ==
    /\ obs.notify = "accepted"
    /\ Len(obs.pending) = 3
    /\ queueCount = 3
    /\ HandedRecordNewestPending

\* C13: addEarthquakeToDisplay called while the user is not scrolling (no
\* drag, offset 0) leaves the scroll offset at 0; called while the user is
\* scrolling (drag active or offset > 0) it leaves the offset as it was.
C13_InsertKeepsEngagedOffset ==
    obs.inserted =>
        /\ obs.engaged <=> (isDragging \/ obs.offset > 0)
        /\ ~obs.engaged => (obs.offset = 0 /\ scrollOffset = 0)
        /\ obs.engaged => scrollOffset = obs.offset

C13_Witness == obs.inserted /\ obs.engaged /\ obs.offset > 0

\* C14: after addEarthquakeToDisplay(r) on a list of n records, r is at index
\* 0, the former entries follow in unchanged order, the size is min(n + 1, 50)
\* (so from a list of 50 only the former last entry is lost), and the list
\* never holds more than 50 records.
C14_InsertPrependsAndCapsAt50 ==
    /\ Len(earthquakeList) <= 50
    /\ obs.inserted =>
           LET n == Len(obs.listBefore)
           IN /\ Len(earthquakeList) = (IF n + 1 < 50 THEN n + 1 ELSE 50)
              /\ earthquakeList[1].seq = obs.started
              /\ \A i \in 2..Len(earthquakeList) :
                     earthquakeList[i].seq = obs.listBefore[i - 1]

C14_Witness == obs.inserted /\ Len(obs.listBefore) = 50

\* C15: the beep count is a total function of the severity: 1 and 2 give 1
\* beep, 3 and 4 give 2, 5-weak, 5-strong, 6-weak, 6-strong and 7 give 3; every
\* record the scheduler starts gets between 1 and 3 beeps.
C15_BeepCountBySeverity ==
    obs.started # 0 =>
        /\ beepCount \in 1..3
        /\ obs.severity \in {"1", "2"} => beepCount = 1
        /\ obs.severity \in {"3", "4"} => beepCount = 2
        /\ obs.severity \in {"5weak", "5strong", "6weak", "6strong", "7"} => beepCount = 3

C15_Witness == obs.started # 0 /\ obs.severity = "6weak" /\ beepCount = 3

\* C16: the flash color is a total function of the severity string: 1 and 2
\* give green, 3 and 4 yellow, 5-weak, 5-strong and 6-weak orange, 6-strong and
\* 7 red, and every other string gives the unknown color.
C16_FlashColorBySeverity ==
    obs.started # 0 =>
        flashColor = (IF obs.severity \in {"1", "2"} THEN COLOR_INTENSITY_1_2
                      ELSE IF obs.severity \in {"3", "4"} THEN COLOR_INTENSITY_3_4
                      ELSE IF obs.severity \in {"5weak", "5strong", "6weak"}
                      THEN COLOR_INTENSITY_5L_6L
                      ELSE IF obs.severity \in {"6strong", "7"} THEN COLOR_INTENSITY_6H_7
                      ELSE COLOR_INTENSITY_UNKNOWN)

ValidRecord(r) ==
    /\ r.hypocenterName # ""
    /\ r.maxIntensity \in Intensities
    /\ r.magnitude >= 0

\* C17: every record in the notification queue, being played or in the list
\* is valid: non-empty location name, one of the nine severities, magnitude
\* >= 0, whether it came from the live feed or from the history fetch.
C17_StoredRecordsAreValid ==
    /\ \A i \in 1..Len(Pending(State)) : ValidRecord(Pending(State)[i])
    /\ \A i \in 1..Len(earthquakeList) : ValidRecord(earthquakeList[i])

C17_Witness ==
    /\ obs.event
    /\ ~obs.payloadOk
    /\ \E i \in 1..Len(earthquakeList) : earthquakeList[i].seq < 0
    /\ \E i \in 1..Len(earthquakeList) : earthquakeList[i].seq > 0

\* C18: a touch received while no notification is active (no flash, no beep
\* sequence running) has no effect on the scheduler: the pending queue, the
\* audio state and the visual state are the same after the tick as before it.
C18_IdleTouchLeavesScheduler ==
    obs.idleTouch => Scheduler(State) = obs.scheduler

C18_Witness == obs.idleTouch /\ playLog # <<>>

\* C19: when a touch cancels the active notification while records are
\* pending, the next pending record is dequeued and its beeps and flash are
\* started as part of that cancel.
C19_CancelStartsNextPending ==
    (obs.cancel /\ obs.pendingAtCancel > 0) =>
        /\ queueCount = obs.pendingAtCancel - 1
        /\ isFlashing
        /\ beepPlayed < beepCount

\* C20 as stated: after a pong timeout the first connect attempt is made on
\* the next tick, without waiting for an interval to elapse.
C20_ReconnectOnNextTick ==
    (obs.op = "webSocketLoop" /\ obs.sinceTimeout # -1) => obs.attempt

\* C20: a pong timeout closes the connection, leaves the failure counter as
\* it was and restarts the reconnect timer; the first connect attempt after
\* it is made no sooner than the reconnect interval (5 s, or 60 s with 5 or
\* more failures counted) after the timeout.
C20_ReconnectAfterIntervalFromTimeout ==
    /\ obs.pongTimeout =>
           /\ ~wsConnected
           /\ consecutiveFailures = obs.failuresBefore
           /\ reconnectTimer = now
    /\ (obs.attempt /\ obs.sinceTimeout # -1) =>
           obs.sinceTimeout >= ReconnectInterval(obs.failuresBefore)

C20_Witness == obs.attempt /\ obs.sinceTimeout # -1

\* C21: when a ping was sent, no pong has been received since that ping and
\* more than 30 s have passed since the ping, the tick disconnects the feed
\* and leaves the failure counter unchanged; while a pong at or after the
\* last ping has been received, or no ping was sent yet on this connection,
\* the check never disconnects.
C21_TimeoutExactlyWhenPongOverdue ==
    obs.op = "keepAlive" =>
        /\ ( /\ pingSent
             /\ Since(lastPongReceivedTime) < Since(lastPingSentTime)
             /\ Elapsed(now, lastPingSentTime) > PONG_TIMEOUT )
           => (~wsConnected /\ consecutiveFailures = obs.failuresBefore)
        /\ (~pingSent \/ Since(lastPongReceivedTime) >= Since(lastPingSentTime))
           => ~obs.pongTimeout

C23_WatchdogForcesLongBackoff ==
    /\ obs.watchdog =>
           /\ ~wsConnected
           /\ consecutiveFailures = MAX_CONSECUTIVE_FAILURES
    /\ (obs.attempt /\ obs.sinceWatchdog # -1) => obs.sinceWatchdog >= BACKOFF_INTERVAL

C23_Witness == obs.attempt /\ obs.sinceWatchdog # -1

\* C24: from the disconnected state, with the link up and free memory above
\* the hard threshold, a connect attempt is eventually made, no later than
\* the first tick at which the reconnect interval (5 s, or 60 s once 5
\* failures are counted) has elapsed since the recorded attempt time. The
\* interval must end, and a tick must remain, within the run.
C24_DisconnectedEventuallyRetries ==
    /\ [](obs.due => obs.attempt)
    /\ ( /\ isWiFiConnected
         /\ ~wsConnected
         /\ now + LiveDelta <= LiveHorizon
         /\ reconnectTimer + ReconnectInterval(consecutiveFailures) <= LiveHorizon )
       ~> obs.attempt

C24_Witness ==
    /\ obs.attempt
    /\ obs.failuresBefore >= MAX_CONSECUTIVE_FAILURES
    /\ obs.connected

\* C25: a successful connect resets the failure counter to 0 and the counter
\* stays 0 for as long as the connection is open; it is 0 when the subscribe
\* request is sent.
C25_CounterZeroWhileOpen ==
    /\ (wsConnected \/ clientOpen) => consecutiveFailures = 0
    /\ obs.sent # <<>> => consecutiveFailures = 0

C25_Witness ==
    /\ obs.attempt
    /\ obs.connected
    /\ obs.failuresBefore >= MAX_CONSECUTIVE_FAILURES
    /\ wsConnected

\* C26: when a frame with a session identifier and no data and no topic
\* arrives, a subscribe request for confirmedAdded/<address> with that
\* identifier is sent before the handler returns, and the duplicate window,
\* the notification queue and playback, and the list do not change.
C26_HandshakeFrameSubscribes ==
    obs.uidFrame =>
        /\ obs.sent = <<[uid |-> obs.uid, subscribe |-> "confirmedAdded/address"]>>
        /\ serverSubscription = obs.uid
        /\ Stores(State) = obs.stores

C26_Witness ==
    /\ obs.uidFrame
    /\ obs.uid = "U2"
    /\ admitLog # <<>>
    /\ playLog # <<>>

\* C27: with a signer filter configured, an event frame whose signer key
\* differs from the filter changes nothing in the duplicate window, the
\* notification queue, the playback state and the list; with no filter
\* configured no frame is dropped for its signer.
C27_SignerFilter ==
    /\ (obs.signed /\ signerPubKey # "" /\ obs.signer # signerPubKey) =>
           (Stores(State) = obs.stores /\ ~obs.event)
    /\ (obs.signed /\ signerPubKey = "") => obs.event

C27_Witness ==
    /\ obs.signed
    /\ signerPubKey = "K1"
    /\ obs.signer = "K2"
    /\ admitLog # <<>>

\* C28 as stated: while the feed is connected, a tick sends a ping if and
\* only if at least 60 s have passed since the recorded ping time, and the
\* time of a sent ping is recorded as the new ping time.
C28_PingExactlyWhenDue ==
    (obs.op = "keepAlive" /\ obs.wasConnected) =>
        /\ obs.ping <=> obs.pingDue
        /\ obs.ping => lastPingSentTime = now

\* C28: while the feed is connected, a tick sends a ping if and only if at
\* least 60 s have passed since the recorded ping time and the transport
\* takes the ping; the time of a sent ping is recorded as the new ping time,
\* and when no ping is sent the recorded time stays as it was.
C28_PingWhenDueAndAccepted ==
    (obs.op = "keepAlive" /\ obs.wasConnected) =>
        /\ obs.ping <=> (obs.pingDue /\ obs.pingAccepted)
        /\ obs.ping => lastPingSentTime = now
        /\ ~obs.ping => lastPingSentTime = obs.pingBefore

C28_Witness ==
    /\ obs.op = "keepAlive"
    /\ obs.wasConnected
    /\ obs.pingDue
    /\ ~obs.pingAccepted
    /\ lastPingSentTime = obs.pingBefore

\* the tones of the sequence that ended started at least 250 ms apart
DoneTonesSpaced ==
    \A i \in 2..Len(obs.doneTones) :
        Elapsed(obs.doneTones[i], obs.doneTones[i - 1]) >= BEEP_DURATION_MS + BEEP_INTERVAL_MS

\* C29 as stated: for a record with beep count n whose playback runs to its
\* end, exactly n tones are started, each at least 250 ms after the previous
\* one, and the audio channel is idle once n beeps have been played.
C29_ExactlyNTones ==
    obs.beepsDone =>
        /\ Len(obs.doneTones) = obs.doneCount
        /\ DoneTonesSpaced
        /\ (beepCount = 0 \/ obs.started # 0)

\* C29: with the speaker initialised exactly n tones are started, each at
\* least 250 ms after the previous one; with the speaker not initialised no
\* tone is started; either way the audio channel is idle (or taken by the
\* next pending record) once the n beep slots have passed.
C29_NTonesWhenSpeakerEnabled ==
    obs.beepsDone =>
        /\ Len(obs.doneTones) = (IF isSpeakerEnabled THEN obs.doneCount ELSE 0)
        /\ DoneTonesSpaced
        /\ (beepCount = 0 \/ obs.started # 0)

C29_Witness ==
    /\ obs.beepsDone
    /\ obs.doneCount = 3
    /\ Len(obs.doneTones) = 3
    /\ beepCount = 0

\* the maxScale codes of the severity table
DefinedScales == {10, 20, 30, 40, 45, 50, 55, 60, 70}

\* C30: a payload is decoded into a record only when its maxScale is one of
\* the nine defined codes 10, 20, 30, 40, 45, 50, 55, 60, 70; a payload with
\* any other integer maxScale fails to decode and is discarded.
C30_OnlyDefinedScalesDecode ==
    (obs.event /\ obs.payloadOk) => obs.maxScale \in DefinedScales

\* C31: in every reachable state the scroll offset lies between 0 and
\* max(0, itemCount * (75 + 8) - 210), whatever drags, inertia steps, live
\* inserts and startup seeding came before.
C31_ScrollOffsetWithinBounds ==
    /\ scrollOffset >= 0
    /\ scrollOffset <= CalculateMaxScrollOffset(State)

C31_Witness ==
    /\ Len(earthquakeList) = ScrollSeeds
    /\ scrollOffset > 0
    /\ scrollOffset = CalculateMaxScrollOffset(State)
    /\ scrollVelocity > 0

\* C32: once the drag is released and no touch follows, the coast ends: on
\* every pass on which the velocity is at least 1 in magnitude its magnitude
\* strictly decreases, so the velocity reaches 0 and stays there, and from
\* then on the scroll offset no longer changes.
C32_InertiaTerminates ==
    /\ [][(pc = "display" /\ ~IsPressed(touch) /\ Abs(scrollVelocity) >= 1)
              => Abs(scrollVelocity') < Abs(scrollVelocity)]_vars
    /\ [][(~IsPressed(touch) /\ scrollVelocity = 0)
              => scrollOffset' = scrollOffset]_vars
    /\ <>[](scrollVelocity = 0)

C32_Witness ==
    /\ obs.op = "updateDisplay"
    /\ obs.coast = 1
    /\ scrollVelocity = 0
    /\ scrollOffset > 0

\* C33: the pong timeout check is right across the wrap of the millisecond
\* clock: it reports a timeout only when a ping was sent, no pong has arrived
\* since that ping, and more than 30 s have really passed since the ping,
\* also when the clock wrapped between the ping and its pong.
C33_TimeoutCheckWrapSafe ==
    obs.pongTimeout =>
        /\ pingSent
        /\ Since(lastPongReceivedTime) < Since(lastPingSentTime)
        /\ Elapsed(now, lastPingSentTime) > PONG_TIMEOUT

\* the records of the startup seed still in the list, in list order
SeededInList == SelectSeq(earthquakeList, LAMBDA r : r.seq < 0)

\* C34: seeding the list at startup bypasses the notification pipeline: right
\* after startup nothing is pending, no beep and no flash runs and the window
\* of identifiers is empty, no seeded record is ever pending or played, the
\* seeded records in the list keep their fetch order, and the list never
\* holds more than 50 records.
C34_SeedBypassesNotification ==
    /\ obs.op = "none" =>
           /\ queueCount = 0 /\ beepCount = 0 /\ ~isFlashing
           /\ \A i \in DOMAIN txHashBuffer : txHashBuffer[i] = ""
           /\ SeededInList = earthquakeList
    /\ \A i \in 1..queueCount : Pending(State)[i].seq > 0
    /\ \A i \in DOMAIN playLog : playLog[i] > 0
    /\ activeSeq >= 0
    /\ \A i \in DOMAIN SeededInList : SeededInList[i].seq = -i
    /\ Len(earthquakeList) <= MAX_EARTHQUAKE_LIST

C34_Witness ==
    /\ Len(earthquakeList) = MAX_EARTHQUAKE_LIST
    /\ Len(SeededInList) \in 2..(ListSeeds - 1)
    /\ playLog # <<>>

\* the tags of the pending records
PendingSet == {Pending(State)[i].seq : i \in 1..queueCount}

\* C35: whenever a record is pending the audio channel is active, and with
\* the loop running the audio channel becomes idle again with nothing left
\* pending: every pending record has been dequeued for playback or evicted,
\* and the scheduler is never left idle with a pending record.
C35_PendingEventuallyLeaves ==
    /\ [](queueCount > 0 => beepCount > 0)
    /\ <>[](beepCount = 0 /\ PendingSet = {})

C35_Witness ==
    /\ beepCount = 0
    /\ queueCount = 0
    /\ nextSeq = MaxDrainEvents
    /\ Len(playLog) = MaxDrainEvents - 1

\* C36: after the peer has closed an established connection the next connect
\* attempt comes no sooner than 5 s after the close, and two consecutive
\* connect attempts are at least 5 s apart also when the earlier succeeded.
C36_AttemptsFiveSecondsApart ==
    /\ (obs.attempt /\ obs.sinceClose # -1) => obs.sinceClose >= RECONNECT_INTERVAL
    /\ (obs.attempt /\ obs.sinceConnect # -1) => obs.sinceConnect >= RECONNECT_INTERVAL

\* C37 as stated: while free memory stays below the hard threshold and the
\* link is up, no connect attempt is made. In SpecPressure the memory is
\* below the threshold all the time.
C37_NoAttemptWhileMemoryLow == isWiFiConnected => ~obs.attempt

\* C37: with the link up, every memory sample below the hard threshold, also
\* one taken while disconnected, sets the failure counter to 5 and restarts
\* the reconnect timer, and from the first such sample on no connect attempt
\* is made while the samples stay below the threshold.
C37_NoAttemptUnderPressure ==
    /\ (obs.sampled /\ obs.critical) =>
           /\ ~wsConnected
           /\ consecutiveFailures = MAX_CONSECUTIVE_FAILURES
           /\ reconnectTimer = now
    /\ obs.attempt => obs.pressure = -1

C37_Witness ==
    /\ obs.sampled
    /\ obs.critical
    /\ isWiFiConnected
    /\ pressureSince # -1
    /\ Elapsed(now, pressureSince) >= BACKOFF_INTERVAL

\* C38: an event frame whose identifier is empty or missing is never handed
\* to the scheduler while at least one slot of the window is still empty: it
\* is discarded as a duplicate, also when no empty identifier was ever
\* admitted.
C38_EmptyIdentifierDiscarded ==
    (obs.event /\ obs.hash = "" /\ \E i \in DOMAIN obs.window : obs.window[i] = "") =>
        /\ obs.dedup = "duplicate"
        /\ obs.notify = "none"
        /\ ~obs.decoded
        /\ txHashBuffer = obs.window

C38_Witness ==
    /\ obs.event
    /\ obs.hash = ""
    /\ obs.payloadOk
    /\ obs.dedup = "duplicate"
    /\ admitLog # <<>>
    /\ \A i \in DOMAIN admitLog : admitLog[i].hash # ""

\* the records of the live feed in the list, in list order
LiveInList == SelectSeq(earthquakeList, LAMBDA r : r.seq > 0)

\* the decoded records that are neither pending nor were ever started: the
\* ones the scheduler turned away or evicted
Dropped ==
    {k \in 1..nextSeq : k \notin PendingSet /\ \A i \in DOMAIN playLog : playLog[i] # k}

\* C39: a record evicted from the pending queue is never played and never put
\* into the list: the live records of the list are exactly the records that
\* were dequeued for playback, newest first in dequeue order, and a record
\* that has left the queue without being played stays unplayed.
C39_ListHoldsExactlyPlayedRecords ==
    /\ [](/\ Len(LiveInList) = Min(Len(playLog), MAX_EARTHQUAKE_LIST)
          /\ \A i \in DOMAIN LiveInList :
                 LiveInList[i].seq = playLog[Len(playLog) + 1 - i]
          /\ Dropped \cap ListTags = {})
    /\ [][Dropped \subseteq Dropped']_vars

C39_Witness ==
    /\ obs.inserted
    /\ obs.notify = "none"
    /\ \E k \in Dropped : k < obs.started

\* C40: in every reachable state the notification ring is consistent: the
\* count is between 0 and 3, head and tail are in 0..2, the tail is the head
\* plus the count modulo 3, and the audio counters satisfy beepPlayed >= 0
\* and, while a sequence runs, beepPlayed < beepCount <= 3.
C40_RingConsistent ==
    /\ queueCount \in 0..NOTIFICATION_QUEUE_SIZE
    /\ queueHead \in 0..(NOTIFICATION_QUEUE_SIZE - 1)
    /\ queueTail \in 0..(NOTIFICATION_QUEUE_SIZE - 1)
    /\ queueTail = (queueHead + queueCount) % NOTIFICATION_QUEUE_SIZE
    /\ beepPlayed >= 0
    /\ beepCount > 0 => (beepPlayed < beepCount /\ beepCount <= 3)

C40_Witness ==
    /\ queueCount = NOTIFICATION_QUEUE_SIZE
    /\ queueHead = 2
    /\ beepCount = 3
    /\ beepPlayed = 2

====
